---- MODULE Spec2Model ----
(***************************************************************************)
(* Client-side realtime reconciliation of the Nova driver panel            *)
(* (src/src/app/page.tsx, component DriverPanel).                          *)
(*                                                                         *)
(* The browser runs one callback at a time, so every action below is one   *)
(* event-loop turn: a socket callback, a timer expiration, a click, or the *)
(* continuation of an awaited network call.                                *)
(*                                                                         *)
(* Five specifications share the definitions translated from the code:     *)
(*   Spec         the order reconciler of the driver session, its inputs   *)
(*                free, and the commands of the driver                     *)
(*   SpecEv       the per-order event-timestamp guard, with the last two   *)
(*                deliveries recorded                                      *)
(*   SpecSession  Spec with the cleanup and the re-run of the effect       *)
(*   SpecSync     the reconciler fed by a backend whose orders only        *)
(*                advance                                                  *)
(*   SpecChan     the realtime channel managers (driver and store          *)
(*                effects): socket, backoff, timers, teardown              *)
(* LiveSpecChan is SpecChan with the fairness of the browser's timers.     *)
(* The reconciler specifications take the socket for granted (a message    *)
(* can arrive whenever the session is live); SpecChan takes the reconciler *)
(* for granted and records which requests each callback issues.            *)
(***************************************************************************)
EXTENDS Integers, Sequences, FiniteSets, TLC

(***************************************************************************)
(* Values                                                                  *)
(***************************************************************************)
OrderIds == {"o1", "o2"}

\* driver.id of the logged-in driver, another driver, and driver_id null
Me == "d1"
Other == "d2"
NoDriver == "none"
DriverRefs == {NoDriver, Me, Other}

\* the two sessions of the page, each with its own realtime effect
Driver == "driver"
Store == "store"
Roles == {Driver, Store}

\* a status that is not a string (payload.status absent -> null)
Null == "null"
Statuses == {"pending", "accepted", "delivering", "delivered", "cancelled"}

\* the statuses the backend sends in the specifications whose inputs are
\* free: pending and one status in progress; delivering, delivered and
\* cancelled come from the commands of the driver
EnvStatuses == {"pending", "accepted"}

\* payload.ts: absent, a string Date.parse cannot read, or a number 0..MaxTs
NoTs == -1
BadTs == -2
MaxTs == 2
TsNumbers == 0..MaxTs

\* pushNotification keeps the 20 most recent entries
FeedCap == 20

\* requests of this client (order fetches, status and decline commands)
\* awaiting their response at one time
MaxInFlight == 1

(***************************************************************************)
(* Lists (JavaScript arrays as sequences)                                  *)
(***************************************************************************)
Ids(list) == {list[i].id : i \in 1..Len(list)}

\* Array.prototype.findIndex by id; 0 when absent
FindIndex(list, id) ==
    IF id \in Ids(list)
    THEN CHOOSE i \in 1..Len(list) :
            list[i].id = id /\ \A j \in 1..(i - 1) : list[j].id # id
    ELSE 0

Take(list, n) == SubSeq(list, 1, IF Len(list) < n THEN Len(list) ELSE n)

(***************************************************************************)
(* Variables                                                               *)
(***************************************************************************)
VARIABLES
    ordersRef,          \* ordersRef.current (and the orders state kept equal to it)
    declinedOrdersRef,  \* declinedOrdersRef.current: ids this driver declined
    orderEventTsRef,    \* orderEventTsRef.current: id -> last applied event ts (0: none)
    hasLoadedRef,       \* hasLoadedRef.current
    notifications,      \* the notification feed, newest first
    active,             \* per session, the liveness flag of its realtime effect
    fetches,            \* fetchOrders calls awaiting their response: kind -> count
    cmd,                \* per order, the command of this client in flight
    chan,               \* the realtime channel managers (SpecChan), see below
    sync,               \* the backend and the network (SpecSync), see below
    ev,                 \* history (SpecEv): the last two deliveries, see below
    store,              \* the store session (SpecStore), see below
    book,               \* browser storage, the decline history and the history of
                        \* the last turn (SpecCmd, SpecHistory), see below
    panel,              \* the driver record, the wallet transactions and the
                        \* rest of the page (SpecMsg and after), see below
    hidden              \* history: per order, "declined" once this driver has
                        \* declined it from the pool, "resent" once an input has
                        \* since carried it still pending and unassigned, "taken"
                        \* once an input has since carried it assigned to another
                        \* driver, "no" otherwise

vars == <<ordersRef, declinedOrdersRef, orderEventTsRef, hasLoadedRef,
          notifications, active, fetches, cmd,
          chan, sync, ev, store, book, panel, hidden>>

(***************************************************************************)
(* The fields of chan: per session (a function on Roles) unless said       *)
(***************************************************************************)
\* the readyState of the session's current WebSocket
socket == chan.socket

\* an open event was queued when close() was called on the connecting socket
openPending == chan.openPending

\* the reconnect counter
retry == chan.retry

\* the delay of the pending reconnect timeout, or 0
reconnectTimer == chan.reconnectTimer

\* the poll interval is set
pollTimer == chan.pollTimer

\* the ping interval of the driver session is set (a boolean)
pingTimer == chan.pingTimer

\* history: the closes that scheduled a reconnect since the last open
failures == chan.failures

\* history: a reconnect timer of the session has fired
reconnected == chan.reconnected

\* history: what the last channel callback did (a record, see Turned)
lastTurn == chan.lastTurn

(***************************************************************************)
(* The fields of sync                                                      *)
(***************************************************************************)
\* per order, the number of status changes the backend has made to it
srv == sync.srv

\* the events sent on the socket and not yet received, oldest first
wire == sync.wire

\* the fetch responses on their way, each with the snapshot the backend read
replies == sync.replies

(***************************************************************************)
(* The fields of ev                                                        *)
(***************************************************************************)
\* the payload the last turn delivered, or NoEvent
lastEv == ev.lastEv

\* the turn before delivered the same payload
again == ev.again

(***************************************************************************)
(* The reconciler's state as one value, so that each handler is an         *)
(* operator from a state and an input to the state it leaves; the toasts   *)
(* it emits and the fetch it issues are sibling operators on the same      *)
(* arguments.                                                              *)
(***************************************************************************)
Client ==
    [orders |-> ordersRef, declined |-> declinedOrdersRef,
     eventTs |-> orderEventTsRef, hasLoaded |-> hasLoadedRef,
     notifications |-> notifications]

Toast(kind, id) == [kind |-> kind, id |-> id]

(***************************************************************************)
(* allowOrderForDriver                                                     *)
(***************************************************************************)
\* a filter that tests the assignment of pending orders only
allowOrderForDriverLeaky(order, declined) ==
    IF order.status = "pending"
    THEN IF order.driver_id # NoDriver /\ order.driver_id # Me THEN FALSE
         ELSE IF order.driver_id = NoDriver /\ order.id \in declined THEN FALSE
         ELSE TRUE
    ELSE TRUE

\* a filter that ignores the decline set
allowOrderForDriverForgetful(order, declined) ==
    IF order.driver_id # NoDriver /\ order.driver_id # Me THEN FALSE ELSE TRUE

\* the code, with declinedOrdersRef.current passed as `declined`
allowOrderForDriver(order, declined) ==
    IF order.status = "pending"
    THEN IF order.driver_id # NoDriver /\ order.driver_id # Me THEN FALSE
         ELSE IF order.driver_id = NoDriver /\ order.id \in declined THEN FALSE
         ELSE TRUE
    ELSE IF order.driver_id # NoDriver /\ order.driver_id # Me THEN FALSE
         ELSE TRUE

FilterAllowed(list, declined) ==
    SelectSeq(list, LAMBDA o : allowOrderForDriver(o, declined))

(***************************************************************************)
(* shouldApplyOrderEvent: the verdict, and the timestamp map it leaves     *)
(***************************************************************************)
\* a guard that compares a missing timestamp like any other
UnstampedNever(ts) == FALSE

\* !ts, or a ts whose parse is not finite
Unstamped(ts) == ts = NoTs \/ ts = 0 \/ ts = BadTs

shouldApplyOrderEvent(eventTs, orderId, ts) ==
    IF Unstamped(ts) THEN TRUE
    ELSE IF ts <= eventTs[orderId] THEN FALSE
    ELSE TRUE

RecordedTs(eventTs, orderId, ts) ==
    IF Unstamped(ts) THEN eventTs
    ELSE IF ts <= eventTs[orderId] THEN eventTs
    ELSE [eventTs EXCEPT ![orderId] = ts]

(***************************************************************************)
(* pushNotification with a key: one entry per key, newest first, 20 kept   *)
(***************************************************************************)
\* the feed without the filter that drops the older entry of the same key
pushNotificationKeepsOld(feed, key) == Take(<<[id |-> key]>> \o feed, FeedCap)

pushNotification(feed, key) ==
    Take(<<[id |-> key]>> \o SelectSeq(feed, LAMBDA n : n.id # key), FeedCap)

OrderKey(id) == <<"order", id>>

(***************************************************************************)
(* applyOrders                                                             *)
(***************************************************************************)
\* the loop under if (showToasts)
applyOrdersToasts(c, nextOrders, showToasts) ==
    IF ~showToasts THEN {}
    ELSE {Toast("new", nextOrders[i].id) :
            i \in {j \in 1..Len(nextOrders) : nextOrders[j].id \notin Ids(c.orders)}}
         \cup
         {Toast("status", nextOrders[i].id) :
            i \in {j \in 1..Len(nextOrders) :
                     /\ nextOrders[j].id \in Ids(c.orders)
                     /\ c.orders[FindIndex(c.orders, nextOrders[j].id)].status
                            # nextOrders[j].status}}

\* the purge loop over nextOrders
PurgeDeclined(declined, nextOrders) ==
    declined \ {nextOrders[i].id :
                  i \in {j \in 1..Len(nextOrders) :
                           \/ nextOrders[j].status # "pending"
                           \/ nextOrders[j].driver_id = Me}}

Reconciled(c, nextOrders, declined) ==
    [c EXCEPT !.orders = FilterAllowed(nextOrders, declined),
              !.declined = declined]

applyOrders(c, nextOrders) ==
    Reconciled(c, nextOrders, PurgeDeclined(c.declined, nextOrders))

(***************************************************************************)
(* updateOrderLocal: the optimistic patch {status, driver_id: driver.id}   *)
(***************************************************************************)
Patched(c, idx, status) ==
    [c EXCEPT !.orders =
        FilterAllowed(
            [c.orders EXCEPT ![idx] = [@ EXCEPT !.status = status, !.driver_id = Me]],
            c.declined)]

updateOrderLocal(c, orderId, status) ==
    IF orderId \notin Ids(c.orders) THEN c
    ELSE Patched(c, FindIndex(c.orders, orderId), status)

(***************************************************************************)
(* markDeclined                                                            *)
(***************************************************************************)
markDeclined(c, orderId) ==
    [c EXCEPT !.declined = c.declined \cup {orderId},
              !.orders = SelectSeq(c.orders, LAMBDA o : o.id # orderId)]

(***************************************************************************)
(* upsertOrder: `incoming` is a whole order (order_created) or, with       *)
(* partial, the fields an order_status event sets                          *)
(***************************************************************************)
Merge(existing, incoming, partial) ==
    IF partial
    THEN [existing EXCEPT !.status = incoming.status,
                          !.driver_id = incoming.driver_id]
    ELSE incoming

Upserted(orders, incoming, partial) ==
    IF incoming.id \in Ids(orders)
    THEN [orders EXCEPT ![FindIndex(orders, incoming.id)] = Merge(@, incoming, partial)]
    ELSE <<incoming>> \o orders

\* if (!hasLoadedRef.current) hasLoadedRef.current = true
Loaded(c) == [c EXCEPT !.hasLoaded = TRUE]

upsertOrder(c, incoming, partial) ==
    Loaded(applyOrders(c, Upserted(c.orders, incoming, partial)))

\* shouldToast = showToasts && hasLoadedRef.current, with showToasts true
upsertOrderToasts(c, incoming, partial) ==
    applyOrdersToasts(c, Upserted(c.orders, incoming, partial), c.hasLoaded)

isDriverBusy(orders) ==
    \E i \in 1..Len(orders) :
        /\ orders[i].driver_id = Me
        /\ orders[i].status \notin {"pending", "delivered", "cancelled"}

(***************************************************************************)
(* handleRealtime, order_created and order_status.  A payload is           *)
(*   [type, id, status, driver_id, loc, ts]                                *)
(* where loc says whether payload.order carries a customer_location_text.  *)
(***************************************************************************)
OrderOf(p) ==
    [id |-> p.id, status |-> p.status, driver_id |-> p.driver_id, loc |-> p.loc]

\* the event passes the timestamp guard
Passes(c, p) == shouldApplyOrderEvent(c.eventTs, p.id, p.ts)

\* the event reaches upsertOrder
Upserts(c, p) ==
    /\ Passes(c, p)
    /\ p.type = "order_created" =>
          /\ ~(p.driver_id # NoDriver /\ p.driver_id # Me)
          /\ ~(p.driver_id = NoDriver /\ isDriverBusy(c.orders))

Stamped(c, p) == [c EXCEPT !.eventTs = RecordedTs(c.eventTs, p.id, p.ts)]

Notified(c, p) ==
    IF p.type = "order_created" \/ p.status # Null
    THEN [c EXCEPT !.notifications = pushNotification(@, OrderKey(p.id))]
    ELSE c

handleRealtime(c, p) ==
    IF ~Upserts(c, p) THEN Stamped(c, p)
    ELSE Notified(upsertOrder(Stamped(c, p), OrderOf(p), p.type = "order_status"), p)

handleRealtimeToasts(c, p) ==
    IF ~Upserts(c, p) THEN {}
    ELSE upsertOrderToasts(c, OrderOf(p), p.type = "order_status")

\* order_status: if (!existing || !existing.customer_location_text)
\*                 safeFetchOrders(false)
handleRealtimeFetches(c, p) ==
    /\ p.type = "order_status"
    /\ Passes(c, p)
    /\ \/ p.id \notin Ids(c.orders)
       \/ ~c.orders[FindIndex(c.orders, p.id)].loc

(***************************************************************************)
(* fetchOrders after its awaits: the merged pool and driver lists          *)
(***************************************************************************)
fetchOrdersDone(c, merged) == Loaded(applyOrders(c, merged))

fetchOrdersToasts(c, merged, showToasts) ==
    applyOrdersToasts(c, merged, showToasts /\ c.hasLoaded)

(***************************************************************************)
(* Inputs                                                                  *)
(***************************************************************************)
\* what GET /orders?status=pending and GET /orders?driver_id= can return for
\* one order: pending with any assignment, or any status assigned to Me
ServerOrders(id) ==
    {[id |-> id, status |-> "pending", driver_id |-> d, loc |-> TRUE] :
        d \in DriverRefs}
    \cup
    {[id |-> id, status |-> st, driver_id |-> Me, loc |-> TRUE] :
        st \in EnvStatuses}

\* the merged map of fetchOrders, in the server's order
RECURSIVE Snapshots(_)
Snapshots(ids) ==
    IF ids = {} THEN {<<>>}
    ELSE LET id == CHOOSE x \in ids : \A y \in ids : x = y \/ x # y
             rest == Snapshots(ids \ {id})
         IN  rest \cup {<<o>> \o r : o \in ServerOrders(id), r \in rest}

CreatedPayloads(ids, tss) ==
    {[type |-> "order_created", id |-> id, status |-> "pending",
      driver_id |-> d, loc |-> TRUE, ts |-> ts] :
        id \in ids, d \in DriverRefs, ts \in tss}

StatusPayloads(ids, sts, tss) ==
    {[type |-> "order_status", id |-> id, status |-> st,
      driver_id |-> d, loc |-> FALSE, ts |-> ts] :
        id \in ids, st \in sts, d \in DriverRefs, ts \in tss}

NoEvent == [type |-> "none"]

(***************************************************************************)
(* In-flight fetchOrders calls.  A kind is <<showToasts, origin>>: origin  *)
(* "live" for safeFetchOrders of the running effect, "stale" once that     *)
(* effect has been cleaned up.                                             *)
(***************************************************************************)
FetchKinds == BOOLEAN \X {"live", "stale"}

RECURSIVE SumOver(_, _)
SumOver(f, S) ==
    IF S = {} THEN 0
    ELSE LET x == CHOOSE y \in S : TRUE IN f[x] + SumOver(f, S \ {x})

InFlight == SumOver(fetches, FetchKinds)

NoFetches == [k \in FetchKinds |-> 0]

\* safeFetchOrders(showToasts)
safeFetchOrders(f, isActive, showToasts) ==
    IF isActive THEN [f EXCEPT ![<<showToasts, "live">>] = @ + 1] ELSE f

\* a busy flag that is never seen set
orderActionIdsUnseen(o) == FALSE

\* orderActionIds[orderId]
orderActionIds(o) == cmd[o] # "idle"

CmdsInFlight == Cardinality({o \in OrderIds : cmd[o] # "idle"})

\* requests of this client awaiting a response
Pending == InFlight + CmdsInFlight

Install(c) ==
    /\ ordersRef' = c.orders
    /\ declinedOrdersRef' = c.declined
    /\ orderEventTsRef' = c.eventTs
    /\ hasLoadedRef' = c.hasLoaded
    /\ notifications' = c.notifications

(***************************************************************************)
(* History variables: what the inputs processed so far said                *)
(***************************************************************************)
IsPool(o) == o.status = "pending" /\ o.driver_id = NoDriver

SeenOne(h, o) ==
    IF h = "no" THEN "no"
    ELSE IF IsPool(o) THEN (IF h = "taken" THEN "taken" ELSE "resent")
    ELSE IF o.driver_id = Other THEN "taken"
    ELSE "no"

\* after reconciling the orders of `list`
Seen(h, list) ==
    [id \in OrderIds |->
        IF id \notin Ids(list) THEN h[id]
        ELSE SeenOne(h[id], list[FindIndex(list, id)])]

(***************************************************************************)
(* Actions of the driver session                                           *)
(***************************************************************************)
\* socket.onmessage -> handleRealtime(payload)
Realtime(p) ==
    /\ active[Driver]
    /\ \E f \in {handleRealtimeFetches(Client, p)} :
           /\ f => Pending < MaxInFlight
           /\ fetches' = IF f THEN safeFetchOrders(fetches, active[Driver], FALSE)
                         ELSE fetches
    /\ \E c \in {handleRealtime(Client, p)} : Install(c)
    /\ hidden' = IF Passes(Client, p) THEN Seen(hidden, <<OrderOf(p)>>) ELSE hidden
    /\ UNCHANGED <<active, cmd>>

\* the poll timer while the socket is not open
PollFetch ==
    /\ active[Driver]
    /\ Pending < MaxInFlight
    /\ fetches' = safeFetchOrders(fetches, active[Driver], TRUE)
    /\ UNCHANGED <<ordersRef, declinedOrdersRef, orderEventTsRef, hasLoadedRef,
                   notifications, active, cmd, hidden>>

\* fetchOrders resumes with both responses
FetchDone(k, merged) ==
    /\ fetches[k] > 0
    /\ \E c \in {fetchOrdersDone(Client, merged)} : Install(c)
    /\ fetches' = [fetches EXCEPT ![k] = @ - 1]
    /\ hidden' = Seen(hidden, merged)
    /\ UNCHANGED <<active, cmd>>

\* fetchOrders resumes in its catch
FetchFailed(k) ==
    /\ fetches[k] > 0
    /\ fetches' = [fetches EXCEPT ![k] = @ - 1]
    /\ UNCHANGED <<ordersRef, declinedOrdersRef, orderEventTsRef, hasLoadedRef,
                   notifications, active, cmd, hidden>>

\* the cleanup of the realtime effect
Cleanup ==
    /\ active[Driver]
    /\ active' = [active EXCEPT ![Driver] = FALSE]
    /\ fetches' = [k \in FetchKinds |->
                     IF k[2] = "stale" THEN fetches[k] + fetches[<<k[1], "live">>]
                     ELSE 0]
    /\ UNCHANGED <<ordersRef, declinedOrdersRef, orderEventTsRef, hasLoadedRef,
                   notifications, cmd, hidden>>

\* the realtime effect runs again: startSocket(); safeFetchOrders(false)
Setup ==
    /\ ~active[Driver]
    /\ Pending < MaxInFlight
    /\ active' = [active EXCEPT ![Driver] = TRUE]
    /\ fetches' = safeFetchOrders(fetches, TRUE, FALSE)
    /\ UNCHANGED <<ordersRef, declinedOrdersRef, orderEventTsRef, hasLoadedRef,
                   notifications, cmd, hidden>>

(***************************************************************************)
(* Commands.  cmd[o] is "idle", the target status of a PATCH awaiting its  *)
(* response, "decline" for a POST /decline awaiting its response, or       *)
(* "sync" while updateStatus / declineOrder await refreshDriver and        *)
(* fetchOrders(true) before their finally clears the busy flag.            *)
(***************************************************************************)
Targets == {"accepted", "delivering", "delivered", "cancelled"}

InList(o) == o \in Ids(ordersRef)
Local(o) == ordersRef[FindIndex(ordersRef, o)]

\* the views that carry the buttons
poolOrders(o) ==
    InList(o) /\ Local(o).status = "pending" /\ Local(o).driver_id = NoDriver
directOrders(o) ==
    InList(o) /\ Local(o).status = "pending" /\ Local(o).driver_id = Me
activeOrders(o) ==
    /\ InList(o)
    /\ Local(o).driver_id = Me
    /\ Local(o).status \notin {"pending", "delivered", "cancelled"}

\* a view that renders every button for every order of the list
ButtonShownAlways(o, target) == InList(o)

\* the button that calls updateStatus(o, target) is rendered
ButtonShown(o, target) ==
    CASE target = "accepted" -> poolOrders(o) \/ directOrders(o)
      [] target = "delivering" -> activeOrders(o) /\ Local(o).status = "accepted"
      [] target = "delivered" -> activeOrders(o) /\ Local(o).status = "delivering"
      [] target = "cancelled" -> activeOrders(o)

\* updateStatus up to its first await (a cancel carries a non-empty reason)
UpdateStatus(o, target) ==
    /\ ButtonShown(o, target)
    /\ ~orderActionIds(o)
    /\ Pending < MaxInFlight
    /\ cmd' = [cmd EXCEPT ![o] = target]
    /\ UNCHANGED <<ordersRef, declinedOrdersRef, orderEventTsRef, hasLoadedRef,
                   notifications, active, fetches, hidden>>

\* the PATCH answered ok: updateOrderLocal, then refreshDriver and fetchOrders
StatusOk(o) ==
    /\ cmd[o] \in Targets
    /\ \E c \in {updateOrderLocal(Client, o, cmd[o])} : Install(c)
    /\ cmd' = [cmd EXCEPT ![o] = "sync"]
    /\ UNCHANGED <<active, fetches, hidden>>

\* a handler that applies the change before it looks at the answer
CommandFailedPatches(o) ==
    /\ cmd[o] # "idle"
    /\ \E c \in {IF cmd[o] \in Targets THEN updateOrderLocal(Client, o, cmd[o])
                  ELSE IF cmd[o] = "decline" THEN markDeclined(Client, o)
                  ELSE Client} : Install(c)
    /\ cmd' = [cmd EXCEPT ![o] = "idle"]
    /\ UNCHANGED <<active, fetches, hidden>>

\* the PATCH or the POST answered not-ok or failed; or an await of the sync
\* threw: the finally clears the busy flag
CommandFailed(o) ==
    /\ cmd[o] # "idle"
    /\ cmd' = [cmd EXCEPT ![o] = "idle"]
    /\ UNCHANGED <<ordersRef, declinedOrdersRef, orderEventTsRef, hasLoadedRef,
                   notifications, active, fetches, hidden>>

\* the command's fetchOrders(true) resumes with both responses
CommandSynced(o, merged) ==
    /\ cmd[o] = "sync"
    /\ \E c \in {fetchOrdersDone(Client, merged)} : Install(c)
    /\ cmd' = [cmd EXCEPT ![o] = "idle"]
    /\ hidden' = Seen(hidden, merged)
    /\ UNCHANGED <<active, fetches>>

\* declineOrder on a pool order, with a non-empty reason: no request is sent
DeclinePool(o) ==
    /\ poolOrders(o)
    /\ ~orderActionIds(o)
    /\ \E c \in {markDeclined(Client, o)} : Install(c)
    /\ hidden' = [hidden EXCEPT ![o] = "declined"]
    /\ UNCHANGED <<active, fetches, cmd>>

\* declineOrder on an order assigned to this driver: POST /decline
DeclineAssigned(o) ==
    /\ directOrders(o)
    /\ ~orderActionIds(o)
    /\ Pending < MaxInFlight
    /\ cmd' = [cmd EXCEPT ![o] = "decline"]
    /\ UNCHANGED <<ordersRef, declinedOrdersRef, orderEventTsRef, hasLoadedRef,
                   notifications, active, fetches, hidden>>

\* the POST answered ok: markDeclined, recordDecline, then fetchOrders(true)
DeclineOk(o) ==
    /\ cmd[o] = "decline"
    /\ \E c \in {markDeclined(Client, o)} : Install(c)
    /\ cmd' = [cmd EXCEPT ![o] = "sync"]
    /\ UNCHANGED <<active, fetches, hidden>>

(***************************************************************************)
(* The fields of store: the store-tracking session                         *)
(***************************************************************************)
StoreIds == {"s1", "s2"}

\* storeTrack?.id, or Null when no store is logged in
storeTrack == store.track

\* the storeOrders state
storeOrders == store.orders

\* per store, the fetchStoreOrders calls awaiting their response
storeCalls == store.calls

\* the store whose loginStore request awaits its response, or Null
storeLogin == store.login

\* history: logoutStore has run and no loginStore has succeeded since
loggedOut == store.out

NoStore ==
    [track |-> Null, orders |-> <<>>, calls |-> [s \in StoreIds |-> 0],
     login |-> Null, out |-> FALSE]

(***************************************************************************)
(* The fields of book                                                      *)
(***************************************************************************)
\* the toasts about orders that the last turn emitted, in order
toasts == book.toasts

\* history: what the last turn of a command did, a record
\*   [what, id, to, text]
\* of the outcome, the order, the target status ("decline" for a decline)
\* and the text typed in the prompt
lastCmd == book.last

\* history: a fetchOrders call of this session has succeeded
fetched == book.fetched

\* history: the last turn was the first success of a fetchOrders call
firstFetch == book.first

\* localStorage["nova.driver.declined.<driver id>"], an array of ids
storedDeclines == book.stored

\* declinedHistoryRef.current (and the declinedHistory state), newest first
declinedHistory == book.history

\* localStorage["nova.driver.declined.history.<driver id>"]
storedHistory == book.storedHistory

\* history: per order, the PATCH and POST requests awaiting their response
sent == book.sent

\* per order, where the command stands once its request has succeeded:
\* "refresh" while it awaits refreshDriver, "fetch" while it awaits
\* fetchOrders(true), "none" otherwise
phase == book.phase

\* per order, the reason captured by the declineOrder call in flight
reasonOf == book.reason

\* history: the number of distinct orders declined so far (SpecHistory)
declines == book.declines

\* history: the number of declines of an order already in the history
redeclines == book.redeclines

NoCmd == [what |-> "none", id |-> Null, to |-> Null, text |-> <<>>]

NoBook ==
    [toasts |-> <<>>, last |-> NoCmd, fetched |-> FALSE, first |-> FALSE,
     stored |-> <<>>, history |-> <<>>, storedHistory |-> <<>>,
     sent |-> [o \in OrderIds |-> 0],
     phase |-> [o \in OrderIds |-> "none"],
     reason |-> [o \in OrderIds |-> <<>>],
     declines |-> 0, redeclines |-> 0]

(***************************************************************************)
(* The fields of panel                                                     *)
(***************************************************************************)
\* a field that a parsed message does not carry, and a value of a field
\* that is not a string (a number)
Absent == "absent"
NonString == "number"

\* the driver state: its status and wallet_balance
driver == panel.driver

\* lastDriverStatusRef.current
lastDriverStatusRef == panel.lastStatus

\* the transactions state: the ids of the wallet transactions, newest first
transactions == panel.transactions

\* history: the session and the text of the last push message handled
lastMsg == panel.msg

NoMsg == [role |-> "none"]

\* driver?.id: the identity logged in, Null when none is (SpecSwitch)
driverId == panel.driverId

\* localStorage: per identity, what is stored under nova.driver.declined.<id>
\* and under nova.driver.declined.history.<id>
keys == panel.keys

\* history: per identity, the orders it has declined
declinedBy == panel.by

\* history: per identity, its decline set and history when it last logged out
left == panel.left

\* history: per identity, the number of its sessions so far
logins == panel.logins
\* the orders and the decline history with the times the server and
\* recordDecline stamp on them (Order, DeclinedOrder)
dated == panel.dated
\* the list that the last turn reconciled, and whether that turn showed
\* toasts; no list once another turn has changed the state
served == panel.served
\* the requests of fetchTransactions that await their response: the GET of
\* refreshDriver and the GET of the wallet transactions.  The effect of
\* the transactions runs at mount, so one profile request is in flight.
calls == panel.calls
\* the storeRealtimeStatus state that the store page displays
storeRealtimeStatus == panel.storeRealtimeStatus
NoServed == [list |-> <<>>, showToasts |-> FALSE]

NoKey == [declined |-> <<>>, history |-> <<>>]

NoPanel ==
    [driver |-> [status |-> "online", wallet_balance |-> "b0"],
     lastStatus |-> "online",
     transactions |-> <<>>,
     msg |-> NoMsg,
     driverId |-> Me,
     keys |-> [d \in {Me, Other} |-> NoKey],
     by |-> [d \in {Me, Other} |-> {}],
     left |-> [d \in {Me, Other} |-> [declined |-> {}, history |-> <<>>]],
     logins |-> [d \in {Me, Other} |-> IF d = Me THEN 1 ELSE 0],
     dated |-> [orders |-> <<>>, declinedHistory |-> <<>>],
     served |-> NoServed,
     calls |-> [profile |-> 1, wallet |-> 0],
     storeRealtimeStatus |-> "disconnected"]

\* what a channel callback of session r did: the fetch and the ping it
\* issued, the socket it created, the reconnect delay it scheduled, and the
\* closes counted before it
Turned(r, what, fetch, ping, newSocket, delay) ==
    [role |-> r, what |-> what, fetch |-> fetch, ping |-> ping,
     socket |-> newSocket, delay |-> delay, n |-> failures[r],
     first |-> ~reconnected[r]]

\* the state once the realtime effect of session r has run: startSocket(),
\* the poll interval and, in the driver session, safeFetchOrders(false)
Mounted(r) ==
    /\ active = [x \in Roles |-> x = r]
    /\ fetches = safeFetchOrders(NoFetches, r = Driver, FALSE)
    /\ chan = [socket |-> [x \in Roles |-> IF x = r THEN "connecting" ELSE "closed"],
               openPending |-> [x \in Roles |-> FALSE],
               retry |-> [x \in Roles |-> 0],
               reconnectTimer |-> [x \in Roles |-> 0],
               pollTimer |-> [x \in Roles |-> x = r],
               pingTimer |-> FALSE,
               failures |-> [x \in Roles |-> 0],
               reconnected |-> [x \in Roles |-> FALSE],
               lastTurn |-> [role |-> r, what |-> "setup", fetch |-> r = Driver,
                             ping |-> FALSE, socket |-> TRUE, delay |-> 0,
                             n |-> 0, first |-> TRUE]]

Idle ==
    /\ ordersRef = <<>>
    /\ declinedOrdersRef = {}
    /\ orderEventTsRef = [o \in OrderIds |-> 0]
    /\ hasLoadedRef = FALSE
    /\ notifications = <<>>
    /\ cmd = [o \in OrderIds |-> "idle"]
    /\ hidden = [o \in OrderIds |-> "no"]
    /\ ev = [lastEv |-> NoEvent, again |-> FALSE]
    /\ sync = [srv |-> [o \in OrderIds |-> 0], wire |-> <<>>, replies |-> <<>>]
    /\ store = NoStore
    /\ book = NoBook
    /\ panel = NoPanel

Init == Idle /\ Mounted(Driver)

SpecTs == {NoTs}
SpecPayloads ==
    CreatedPayloads(OrderIds, SpecTs) \cup StatusPayloads(OrderIds, EnvStatuses, SpecTs)
AllSnapshots == Snapshots(OrderIds)

\* the variables of the other specifications
Quiet == UNCHANGED <<ev, sync, chan, store, book, panel>>

Next ==
    \/ \E p \in SpecPayloads : Realtime(p) /\ Quiet
    \/ PollFetch /\ Quiet
    \/ \E k \in {x \in FetchKinds : fetches[x] > 0} :
          \E m \in AllSnapshots : FetchDone(k, m) /\ Quiet
    \/ \E k \in FetchKinds : FetchFailed(k) /\ Quiet
    \/ \E o \in OrderIds : DeclinePool(o) /\ Quiet
    \/ \E o \in OrderIds, t \in Targets : UpdateStatus(o, t) /\ Quiet
    \/ \E o \in OrderIds : StatusOk(o) /\ Quiet
    \/ \E o \in OrderIds : CommandFailed(o) /\ Quiet
    \/ \E o \in {x \in OrderIds : cmd[x] = "sync"} :
          \E m \in AllSnapshots : CommandSynced(o, m) /\ Quiet
    \/ \E o \in OrderIds : DeclineAssigned(o) /\ Quiet
    \/ \E o \in OrderIds : DeclineOk(o) /\ Quiet

Spec == Init /\ [][Next]_vars

(***************************************************************************)
(* C1.  The order list never holds an order assigned to another driver,    *)
(* whatever its status, after any sequence of fetch results, order_created *)
(* and order_status events, optimistic patches and declines.               *)
(***************************************************************************)
C1_NoForeignOrder ==
    \A i \in 1..Len(ordersRef) : ordersRef[i].driver_id \in {NoDriver, Me}

\* an input has assigned a declined order to another driver, a push event has
\* been applied, and an optimistic patch has just put an order in this
\* driver's name
C1_Witness ==
    \E o \in OrderIds, q \in OrderIds :
        /\ hidden[o] = "taken"
        /\ cmd[q] = "sync"
        /\ InList(q) /\ Local(q).driver_id = Me /\ Local(q).status = "accepted"
        /\ notifications # <<>>
        /\ hasLoadedRef

(***************************************************************************)
(* C2.  A pool order this driver has declined is absent from the order     *)
(* list after every later resync and push event, for as long as every      *)
(* input that carries it still carries it pending and unassigned.          *)
(***************************************************************************)
C2_DeclinedStaysHidden ==
    \A o \in OrderIds : hidden[o] \in {"declined", "resent"} => ~InList(o)

\* a declined order has come again, pending and unassigned, while the other
\* order is shown
C2_Witness ==
    \E o \in OrderIds :
        /\ hidden[o] = "resent"
        /\ o \in declinedOrdersRef
        /\ ordersRef # <<>>

(***************************************************************************)
(* SpecEv: the push events of one order under every timestamp the payload  *)
(* can carry (none, unparsable, 0, positive), while the snapshots hold at  *)
(* most the other order.  lastEv and again record the last two deliveries. *)
(***************************************************************************)
EvIds == {"o1"}

EvTs == {NoTs, BadTs} \cup TsNumbers

EvStatuses == {"accepted", "delivering", Null}

EvPayloads ==
    CreatedPayloads(EvIds, EvTs) \cup StatusPayloads(EvIds, EvStatuses, EvTs)

EvSnapshots ==
    {<<>>, <<[id |-> "o2", status |-> "accepted", driver_id |-> Me, loc |-> TRUE]>>}

Deliver(p) ==
    /\ Realtime(p)
    /\ ev' = [lastEv |-> p, again |-> lastEv = p]

\* a turn that delivers no event
Forgotten == ev' = [lastEv |-> NoEvent, again |-> FALSE]

QuietEv == UNCHANGED <<sync, chan, store, book, panel>>

NextEv ==
    \/ \E p \in EvPayloads : Deliver(p) /\ QuietEv
    \/ \E k \in {x \in FetchKinds : fetches[x] > 0} :
          \E m \in EvSnapshots : FetchDone(k, m) /\ Forgotten /\ QuietEv
    \/ \E k \in FetchKinds : FetchFailed(k) /\ Forgotten /\ QuietEv

SpecEv == Init /\ [][NextEv]_vars

(***************************************************************************)
(* C3.  An order_created or order_status event whose timestamp is not      *)
(* strictly greater than the timestamp recorded for its order is           *)
(* discarded: the order list, the notification feed and the recorded       *)
(* timestamp stay as they were.                                            *)
(***************************************************************************)
C3_OldEventDiscarded ==
    [][\A p \in EvPayloads :
          (/\ p.ts \in TsNumbers
           /\ orderEventTsRef[p.id] > 0
           /\ p.ts <= orderEventTsRef[p.id]
           /\ Deliver(p))
          => UNCHANGED <<ordersRef, notifications, orderEventTsRef>>]_vars

\* the same, for the timestamps that `!ts` does not take for a missing one
C3_OldNonZeroEventDiscarded ==
    [][\A p \in EvPayloads :
          (/\ p.ts \in TsNumbers \ {0}
           /\ p.ts <= orderEventTsRef[p.id]
           /\ Deliver(p))
          => UNCHANGED <<ordersRef, notifications, orderEventTsRef>>]_vars

(***************************************************************************)
(* C5.  When an order_status event has just been delivered, delivering it  *)
(* once more, with or without a timestamp, leaves the order list as it is, *)
(* shows no status-changed toast, leaves at most one feed entry for the    *)
(* order and does not lower the timestamp recorded for it.                 *)
(***************************************************************************)
FeedEntries(feed, key) == {i \in 1..Len(feed) : feed[i].id = key}

C5_DuplicateDelivery ==
    lastEv.type = "order_status" =>
        /\ handleRealtime(Client, lastEv).orders = ordersRef
        /\ Toast("status", lastEv.id) \notin handleRealtimeToasts(Client, lastEv)
        /\ Cardinality(FeedEntries(handleRealtime(Client, lastEv).notifications,
                                   OrderKey(lastEv.id))) <= 1
        /\ handleRealtime(Client, lastEv).eventTs[lastEv.id]
               >= orderEventTsRef[lastEv.id]

\* a status change with a timestamp has been delivered twice in a row to a
\* client that shows the order and toasts
C5_Witness ==
    /\ again
    /\ lastEv.type = "order_status"
    /\ lastEv.status = "delivering"
    /\ lastEv.ts \in TsNumbers \ {0}
    /\ orderEventTsRef[lastEv.id] = lastEv.ts
    /\ InList(lastEv.id) /\ Local(lastEv.id).status = "delivering"
    /\ hasLoadedRef
    /\ Len(ordersRef) = 2

(***************************************************************************)
(* SpecSession: the reconciler with the cleanup and the re-run of the      *)
(* realtime effect (React runs them when `driver` or `secretCode` change). *)
(***************************************************************************)
NextSession ==
    \/ Next
    \/ Cleanup /\ Quiet
    \/ Setup /\ Quiet

SpecSession == Init /\ [][NextSession]_vars

(***************************************************************************)
(* C10.  Once the cleanup has set active to false, the response to an      *)
(* order fetch issued before it changes neither the order list, nor the    *)
(* decline set, nor hasLoadedRef.                                          *)
(***************************************************************************)
C10_StaleResponseDropped ==
    [][\A m \in AllSnapshots, st \in BOOLEAN :
          FetchDone(<<st, "stale">>, m) =>
              UNCHANGED <<ordersRef, declinedOrdersRef, hasLoadedRef>>]_vars

(***************************************************************************)
(* SpecSync: the reconciler fed by one backend.  Both orders are assigned  *)
(* to this driver and only move forward through SyncStatuses; every change *)
(* is sent as an order_status event whose ts is the number of changes so   *)
(* far, events arrive in the order sent, and a fetch response carries the  *)
(* snapshot the backend read when it served the request.                   *)
(***************************************************************************)
SyncStatuses == <<"pending", "accepted", "delivering", "delivered">>

MaxVersion == IF MaxTs < Len(SyncStatuses) THEN MaxTs ELSE Len(SyncStatuses) - 1

MaxWire == 1

Rank(status) ==
    IF \E i \in 1..Len(SyncStatuses) : SyncStatuses[i] = status
    THEN CHOOSE i \in 1..Len(SyncStatuses) : SyncStatuses[i] = status
    ELSE 0

ServerOrder(o) ==
    [id |-> o, status |-> SyncStatuses[srv[o] + 1], driver_id |-> Me, loc |-> TRUE]

ServerSnapshot == <<ServerOrder("o1"), ServerOrder("o2")>>

Unanswered(k) ==
    fetches[k] - Cardinality({i \in 1..Len(replies) : replies[i].kind = k})

Without(seq, i) == SubSeq(seq, 1, i - 1) \o SubSeq(seq, i + 1, Len(seq))

\* the backend changes the status of an order and broadcasts the change
ServerAdvance(o) ==
    /\ srv[o] < MaxVersion
    /\ Len(wire) < MaxWire
    /\ sync' = [sync EXCEPT
                  !.srv[o] = @ + 1,
                  !.wire = Append(@, [type |-> "order_status", id |-> o,
                                      status |-> SyncStatuses[srv[o] + 2],
                                      driver_id |-> Me, loc |-> FALSE,
                                      ts |-> srv[o] + 1])]
    /\ UNCHANGED <<ordersRef, declinedOrdersRef, orderEventTsRef, hasLoadedRef,
                   notifications, active, fetches, cmd, hidden>>

\* socket.onmessage with the oldest event sent
SocketMessage ==
    /\ wire # <<>>
    /\ Realtime(Head(wire))
    /\ sync' = [sync EXCEPT !.wire = Tail(@)]

\* the backend serves the two GETs of one fetchOrders
ServerReads(k) ==
    /\ Unanswered(k) > 0
    /\ sync' = [sync EXCEPT
                  !.replies = Append(@, [kind |-> k, orders |-> ServerSnapshot])]
    /\ UNCHANGED <<ordersRef, declinedOrdersRef, orderEventTsRef, hasLoadedRef,
                   notifications, active, fetches, cmd, hidden>>

\* a response arrives
FetchReply(i) ==
    /\ FetchDone(replies[i].kind, replies[i].orders)
    /\ sync' = [sync EXCEPT !.replies = Without(@, i)]

QuietSync == UNCHANGED <<ev, chan, store, book, panel>>

NextSync ==
    \/ \E o \in OrderIds : ServerAdvance(o) /\ QuietSync
    \/ SocketMessage /\ QuietSync
    \/ \E k \in FetchKinds : ServerReads(k) /\ QuietSync
    \/ \E i \in 1..Len(replies) : FetchReply(i) /\ QuietSync
    \/ PollFetch /\ UNCHANGED sync /\ QuietSync

SpecSync == Init /\ [][NextSync]_vars

(***************************************************************************)
(* C4.  The status the client holds for an order never goes back from one  *)
(* taken from newer backend state to one taken from older backend state,   *)
(* however events and fetch responses interleave.                          *)
(***************************************************************************)
C4_NoRegression ==
    [][\A o \in OrderIds :
          InList(o) /\ InList(o)' =>
              Rank(Local(o).status)' >= Rank(Local(o).status)]_vars

(***************************************************************************)
(* The realtime channel managers: the driver effect and the store effect   *)
(* run the same code but for the ping interval (driver only), the fetch in *)
(* onopen (store only) and the `active` test of safeFetchOrders (driver    *)
(* only).  A readyState is "connecting", "open", "closing" or "closed".    *)
(***************************************************************************)
MaxRetry == 7

MaxDelay == 30000

BaseDelay == 1000

Min(a, b) == IF a <= b THEN a ELSE b

\* a delay without the cap
BackoffUncapped(n) == BaseDelay * 2 ^ n

\* Math.min(30000, 1000 * 2 ** retry)
Backoff(n) == Min(MaxDelay, BaseDelay * 2 ^ n)

\* an onclose without its liveness test
ReschedulesAlways(isActive) == TRUE

\* socket.onclose: if (!active) return
Reschedules(isActive) == isActive

\* a poll callback that does not look at the socket
PollFetchesAlways(readyState) == TRUE

\* the poll callback: !socket || socket.readyState !== WebSocket.OPEN
PollFetches(readyState) == readyState # "open"

\* WebSocket.close()
Closed(readyState) ==
    IF readyState \in {"connecting", "open"} THEN "closing" ELSE readyState

reconcilerVars == <<ordersRef, declinedOrdersRef, orderEventTsRef, hasLoadedRef,
                    notifications, fetches, cmd, hidden>>

\* socket.onopen.  Browsers fire no open event once close() has been called;
\* the model lets an open event that was already queued run its handler, the
\* readyState staying "closing".
OnOpen(r) ==
    /\ socket[r] = "connecting" \/ (socket[r] = "closing" /\ openPending[r])
    /\ chan' = [chan EXCEPT
                  !.socket[r] = IF @ = "connecting" THEN "open" ELSE @,
                  !.openPending[r] = FALSE,
                  !.retry[r] = 0,
                  !.failures[r] = 0,
                  !.pingTimer = IF r = Driver THEN TRUE ELSE @,
                  !.lastTurn = Turned(r, "open", r = Store, FALSE, FALSE, 0)]
    /\ UNCHANGED <<active, reconcilerVars>>

\* socket.onerror: socket?.close()
OnError(r) ==
    /\ socket[r] \in {"connecting", "open"}
    /\ chan' = [chan EXCEPT
                  !.socket[r] = Closed(@),
                  !.lastTurn = Turned(r, "error", FALSE, FALSE, FALSE, 0)]
    /\ UNCHANGED <<active, reconcilerVars>>

\* socket.onclose
OnClose(r) ==
    /\ socket[r] \in {"connecting", "open", "closing"}
    /\ Reschedules(active[r]) => retry[r] < MaxRetry
    /\ chan' = IF Reschedules(active[r])
               THEN [chan EXCEPT
                       !.socket[r] = "closed",
                       !.openPending[r] = FALSE,
                       !.pingTimer = IF r = Driver THEN FALSE ELSE @,
                       !.reconnectTimer[r] = Backoff(retry[r]),
                       !.retry[r] = @ + 1,
                       !.failures[r] = @ + 1,
                       !.lastTurn = Turned(r, "close", FALSE, FALSE, FALSE,
                                           Backoff(retry[r]))]
               ELSE [chan EXCEPT
                       !.socket[r] = "closed",
                       !.openPending[r] = FALSE,
                       !.pingTimer = IF r = Driver THEN FALSE ELSE @,
                       !.lastTurn = Turned(r, "close", FALSE, FALSE, FALSE, 0)]
    /\ UNCHANGED <<active, reconcilerVars>>

\* the reconnect timeout expires: startSocket()
ReconnectFire(r) ==
    /\ reconnectTimer[r] # 0
    /\ chan' = [chan EXCEPT
                  !.reconnectTimer[r] = 0,
                  !.socket[r] = "connecting",
                  !.reconnected[r] = TRUE,
                  !.lastTurn = Turned(r, "reconnect", FALSE, FALSE, TRUE, 0)]
    /\ UNCHANGED <<active, reconcilerVars>>

\* the poll interval ticks; the driver's fetch is safeFetchOrders(true)
PollTick(r) ==
    /\ pollTimer[r]
    /\ IF PollFetches(socket[r]) /\ r = Driver
       THEN PollFetch
       ELSE UNCHANGED <<active, reconcilerVars>>
    /\ chan' = [chan EXCEPT
                  !.lastTurn = Turned(r, "poll", PollFetches(socket[r]),
                                      FALSE, FALSE, 0)]

\* the ping interval of the driver session ticks
PingTick ==
    /\ pingTimer
    /\ chan' = [chan EXCEPT
                  !.lastTurn = Turned(Driver, "ping", FALSE,
                                      socket[Driver] = "open", FALSE, 0)]
    /\ UNCHANGED <<active, reconcilerVars>>

\* the cleanup of the realtime effect of session r
Teardown(r) ==
    /\ active[r]
    /\ IF r = Driver
       THEN Cleanup
       ELSE /\ active' = [active EXCEPT ![r] = FALSE]
            /\ UNCHANGED reconcilerVars
    /\ chan' = [chan EXCEPT
                  !.socket[r] = Closed(@),
                  !.openPending[r] = socket[r] = "connecting",
                  !.pingTimer = IF r = Driver THEN FALSE ELSE @,
                  !.reconnectTimer[r] = 0,
                  !.pollTimer[r] = FALSE,
                  !.lastTurn = Turned(r, "teardown", FALSE, FALSE, FALSE, 0)]

\* a fetch of the driver session ends, here without a response
FetchEnds == \E k \in FetchKinds : FetchFailed(k)

(***************************************************************************)
(* SpecChan: one of the two sessions is mounted.                           *)
(***************************************************************************)
InitChan == Idle /\ \E r \in Roles : Mounted(r)

QuietChan == UNCHANGED <<ev, sync, store, book, panel>>

NextChan ==
    \/ \E r \in Roles : OnOpen(r) /\ QuietChan
    \/ \E r \in Roles : OnError(r) /\ QuietChan
    \/ \E r \in Roles : OnClose(r) /\ QuietChan
    \/ \E r \in Roles : ReconnectFire(r) /\ QuietChan
    \/ \E r \in Roles : PollTick(r) /\ QuietChan
    \/ PingTick /\ QuietChan
    \/ \E r \in Roles : Teardown(r) /\ QuietChan
    \/ FetchEnds /\ UNCHANGED chan /\ QuietChan

SpecChan == InitChan /\ [][NextChan]_vars

\* the intervals keep ticking and a request ends
FairChan ==
    /\ \A r \in Roles : WF_vars(PollTick(r) /\ QuietChan)
    /\ WF_vars(FetchEnds /\ UNCHANGED chan /\ QuietChan)

LiveSpecChan == SpecChan /\ FairChan

(***************************************************************************)
(* C6.  In either session the n-th consecutive close since the last open   *)
(* (n = 0, 1, 2, ...) schedules the reconnect after min(30000, 1000 * 2^n) *)
(* ms, that is 1s, 2s, 4s, 8s, 16s, 30s, 30s, ...; the reconnect counter   *)
(* is the number of closes since the last open, so an open resets it.      *)
(***************************************************************************)
ExpectedDelays == <<1000, 2000, 4000, 8000, 16000, 30000>>

ExpectedDelay(n) ==
    IF n < Len(ExpectedDelays) THEN ExpectedDelays[n + 1]
    ELSE ExpectedDelays[Len(ExpectedDelays)]

C6_Backoff ==
    /\ \A r \in Roles : retry[r] = failures[r]
    /\ (lastTurn.what = "close" /\ active[lastTurn.role]) =>
          /\ lastTurn.delay = ExpectedDelay(lastTurn.n)
          /\ reconnectTimer[lastTurn.role] = lastTurn.delay

\* the seventh close in a row of the store session has scheduled 30s
C6_Witness ==
    /\ lastTurn.what = "close"
    /\ lastTurn.role = Store
    /\ active[Store]
    /\ lastTurn.n = 6
    /\ lastTurn.delay = 30000

(***************************************************************************)
(* C7.  Every open of the realtime socket, in the driver session as in the *)
(* store session, issues a full snapshot fetch.  (For the first connection *)
(* of the driver session the formula accepts the fetch its effect issues   *)
(* right after startSocket().)                                             *)
(***************************************************************************)
C7_OpenFetches ==
    lastTurn.what = "open" =>
        \/ lastTurn.fetch
        \/ lastTurn.first /\ lastTurn.role = Driver

(***************************************************************************)
(* C8.  A tick of the poll interval issues a snapshot fetch if and only if *)
(* the socket of the session is not open; and while the socket stays down  *)
(* and the session stays live, a poll fetch is eventually issued.          *)
(***************************************************************************)
PolledFetch(r) ==
    lastTurn.role = r /\ lastTurn.what = "poll" /\ lastTurn.fetch

PollTickRight ==
    lastTurn.what = "poll" =>
        (lastTurn.fetch <=> socket[lastTurn.role] # "open")

C8_PollFallback ==
    /\ []PollTickRight
    /\ \A r \in Roles :
          (active[r] /\ socket[r] # "open")
              ~> (socket[r] = "open" \/ ~active[r] \/ PolledFetch(r))

\* a poll tick has issued a fetch while the socket, after two failed
\* connections, waits for its reconnect
C8_Witness ==
    /\ PolledFetch(Driver)
    /\ failures[Driver] >= 2
    /\ socket[Driver] = "closed"
    /\ reconnectTimer[Driver] # 0

(***************************************************************************)
(* C9.  Once the cleanup of a session has run, the session creates no      *)
(* socket, schedules no reconnect, sends no ping and polls no snapshot,    *)
(* whichever callbacks were pending; no timer of the session is left set.  *)
(***************************************************************************)
C9_QuietAfterTeardown ==
    /\ \A r \in Roles :
          ~active[r] => /\ reconnectTimer[r] = 0
                        /\ ~pollTimer[r]
                        /\ socket[r] \in {"closing", "closed"}
    /\ (~active[lastTurn.role] /\ lastTurn.what # "teardown") =>
          /\ ~lastTurn.socket
          /\ lastTurn.delay = 0
          /\ ~lastTurn.ping
          /\ ~(lastTurn.what = "poll" /\ lastTurn.fetch)

\* the close event of the socket that the cleanup closed has been handled,
\* in a session that had reconnected before
C9_Witness ==
    /\ ~active[lastTurn.role]
    /\ lastTurn.what = "close"
    /\ ~lastTurn.first
    /\ socket[lastTurn.role] = "closed"

(***************************************************************************)
(* SpecStore: the store-tracking session.  A store order is [id, status];  *)
(* GET /stores/track answers with the store's orders and, when the backend *)
(* sends it, the store's session record.                                   *)
(***************************************************************************)
MaxStoreCalls == 1

StoreOrderIds == {"o1", "o2"}

StoreStatuses == {"pending", "delivered"}

StoreOrdersOf(id) == {[id |-> id, status |-> st] : st \in StoreStatuses}

\* the order lists a response can carry
StoreLists ==
    {<<>>}
    \cup {<<a>> : a \in StoreOrdersOf("o1") \cup StoreOrdersOf("o2")}
    \cup {<<a, b>> : a \in StoreOrdersOf("o1"), b \in StoreOrdersOf("o2")}

\* upsertStoreOrder
upsertStoreOrder(prev, incoming) ==
    IF incoming.id \in Ids(prev)
    THEN [prev EXCEPT ![FindIndex(prev, incoming.id)] =
              [@ EXCEPT !.status = incoming.status]]
    ELSE <<incoming>> \o prev

\* loginStore up to its await (the login form is shown while no store is
\* logged in)
LoginStore(s) ==
    /\ storeTrack = Null
    /\ storeLogin = Null
    /\ store' = [store EXCEPT !.login = s]

\* loginStore resumes with data.ok and data.store
LoginStoreOk(list) ==
    /\ storeLogin # Null
    /\ store' = [store EXCEPT !.track = storeLogin, !.orders = list,
                              !.login = Null, !.out = FALSE]

\* loginStore resumes with an error
LoginStoreFailed ==
    /\ storeLogin # Null
    /\ store' = [store EXCEPT !.login = Null]

\* fetchStoreOrders up to its await: socket.onopen, the poll interval or the
\* refresh button
StoreFetch ==
    /\ storeTrack # Null
    /\ storeCalls[storeTrack] < MaxStoreCalls
    /\ store' = [store EXCEPT !.calls[storeTrack] = @ + 1]

\* fetchStoreOrders resumes with data.ok and data.orders, with or without
\* data.store
StoreFetchDone(s, list, withStore) ==
    /\ storeCalls[s] > 0
    /\ store' = [store EXCEPT !.orders = list,
                              !.track = IF withStore THEN s ELSE @,
                              !.calls[s] = @ - 1]

\* fetchStoreOrders resumes with an error
StoreFetchFailed(s) ==
    /\ storeCalls[s] > 0
    /\ store' = [store EXCEPT !.calls[s] = @ - 1]

\* socket.onmessage of the store session, which tests `active`
StoreEvent(incoming) ==
    /\ storeTrack # Null
    /\ store' = [store EXCEPT !.orders = upsertStoreOrder(@, incoming)]

logoutStore ==
    /\ storeTrack # Null
    /\ store' = [store EXCEPT !.track = Null, !.orders = <<>>, !.out = TRUE]

QuietStore ==
    UNCHANGED <<ordersRef, declinedOrdersRef, orderEventTsRef, hasLoadedRef,
                notifications, active, fetches, cmd, chan, sync, ev, book, panel,
                hidden>>

NextStore ==
    \/ \E s \in StoreIds : LoginStore(s) /\ QuietStore
    \/ \E list \in StoreLists : LoginStoreOk(list) /\ QuietStore
    \/ LoginStoreFailed /\ QuietStore
    \/ StoreFetch /\ QuietStore
    \/ \E s \in StoreIds, list \in StoreLists, w \in BOOLEAN :
          StoreFetchDone(s, list, w) /\ QuietStore
    \/ \E s \in StoreIds : StoreFetchFailed(s) /\ QuietStore
    \/ \E id \in StoreOrderIds : \E o \in StoreOrdersOf(id) :
          StoreEvent(o) /\ QuietStore
    \/ logoutStore /\ QuietStore

SpecStore == Init /\ [][NextStore]_vars

(***************************************************************************)
(* C11.  After logoutStore no store is logged in and the store order list  *)
(* is empty until the next successful loginStore, whatever responses to    *)
(* earlier store-order fetches arrive.                                     *)
(***************************************************************************)
C11_StaysLoggedOut ==
    loggedOut => storeTrack = Null /\ storeOrders = <<>>

(***************************************************************************)
(* The toasts of applyOrders, in the order the loop emits them             *)
(***************************************************************************)
\* one pass of the loop body for `order`
ToastFor(prev, order) ==
    IF order.id \notin Ids(prev) THEN <<Toast("new", order.id)>>
    ELSE IF prev[FindIndex(prev, order.id)].status # order.status
         THEN <<Toast("status", order.id)>>
         ELSE <<>>

RECURSIVE ToastsOf(_, _)
ToastsOf(prev, nextOrders) ==
    IF nextOrders = <<>> THEN <<>>
    ELSE ToastFor(prev, Head(nextOrders)) \o ToastsOf(prev, Tail(nextOrders))

\* a loop that does not test showToasts
applyOrdersToastSeqAlways(prev, nextOrders, showToasts) ==
    ToastsOf(prev, nextOrders)

\* if (showToasts) { for (const order of nextOrders) ... }
applyOrdersToastSeq(prev, nextOrders, showToasts) ==
    IF showToasts THEN ToastsOf(prev, nextOrders) ELSE <<>>

(***************************************************************************)
(* Browser storage of the decline set and of the decline history           *)
(***************************************************************************)
HistoryCap == 80

Range(seq) == {seq[i] : i \in 1..Len(seq)}

\* Array.from(set)
RECURSIVE ArrayFrom(_)
ArrayFrom(set) ==
    IF set = {} THEN <<>>
    ELSE LET x == CHOOSE y \in set : TRUE IN <<x>> \o ArrayFrom(set \ {x})

\* persistDeclines: setItem(key, JSON.stringify(Array.from(declinedOrdersRef.current)))
persistDeclines(declined) == ArrayFrom(declined)

\* markDeclined: declinedOrdersRef.current.add(orderId); persistDeclines(driver.id)
markDeclinedStored(declined, orderId) == persistDeclines(declined \cup {orderId})

\* a purge that forgets to persist
applyOrdersStoredStale(stored, declined, nextOrders) == stored

\* applyOrders: if (declinedChanged) persistDeclines(driver.id)
applyOrdersStored(stored, declined, nextOrders) ==
    IF PurgeDeclined(declined, nextOrders) # declined
    THEN persistDeclines(PurgeDeclined(declined, nextOrders))
    ELSE stored

\* the entry of recordDecline: {...order, driver_id: driver.id,
\* cancel_reason: reason, status: "declined"}
DeclinedEntry(id, reason) ==
    [id |-> id, status |-> "declined", driver_id |-> Me, reason |-> reason]

\* a history that keeps the older entry of the same order
recordDeclineKeepsOld(history, id, reason) ==
    Take(<<DeclinedEntry(id, reason)>> \o history, HistoryCap)

\* recordDecline: [entry, ...prev.filter((item) => item.id !== order.id)].slice(0, 80)
recordDecline(history, id, reason) ==
    Take(<<DeclinedEntry(id, reason)>>
            \o SelectSeq(history, LAMBDA item : item.id # id),
         HistoryCap)

\* persistDeclinedHistory: setItem(key, JSON.stringify(next.slice(0, 80)))
persistDeclinedHistory(next) == Take(next, HistoryCap)

(***************************************************************************)
(* window.prompt and String.prototype.trim.  A text is a sequence of       *)
(* characters; an input is [ok, text], ok false when the prompt was        *)
(* dismissed (prompt returns null).                                        *)
(***************************************************************************)
Dismissed == [ok |-> FALSE, text |-> <<>>]

Typed(text) == [ok |-> TRUE, text |-> text]

Inputs == {Dismissed, Typed(<<>>), Typed(<<" ">>), Typed(<<" ", "a", " ">>)}

RECURSIVE TrimStart(_)
TrimStart(text) ==
    IF text # <<>> /\ Head(text) = " " THEN TrimStart(Tail(text)) ELSE text

RECURSIVE TrimEnd(_)
TrimEnd(text) ==
    IF text # <<>> /\ text[Len(text)] = " "
    THEN TrimEnd(SubSeq(text, 1, Len(text) - 1))
    ELSE text

\* a trim that is forgotten
TrimNot(text) == text

Trim(text) == TrimEnd(TrimStart(text))

\* input ? input.trim() : ""
Reason(input) == IF input.ok /\ input.text # <<>> THEN Trim(input.text) ELSE <<>>

\* updateStatus up to its first await: "ignored" (the busy flag is set),
\* "no-reason" (a cancel without a reason) or "sent"
updateStatusOutcome(busy, status, input) ==
    IF busy THEN "ignored"
    ELSE IF status = "cancelled" /\ Reason(input) = <<>> THEN "no-reason"
    ELSE "sent"

\* a declineOrder that asks the backend for pool orders too
declineOrderOutcomeAsks(busy, order, input) ==
    IF busy THEN "ignored"
    ELSE IF Reason(input) = <<>> THEN "no-reason"
    ELSE "sent"

\* declineOrder up to its first await: "ignored", "no-reason", "hidden" (a
\* pool order: markDeclined, recordDecline, no request) or "sent"
declineOrderOutcome(busy, order, input) ==
    IF busy THEN "ignored"
    ELSE IF Reason(input) = <<>> THEN "no-reason"
    ELSE IF order.driver_id = NoDriver THEN "hidden"
    ELSE "sent"

(***************************************************************************)
(* SpecCmd: the driver session with the whole of updateStatus and          *)
(* declineOrder (the prompt, the requests, refreshDriver), browser storage *)
(* and the toasts of each turn.  Each action is a turn of the reconciler   *)
(* together with what it leaves in book.                                   *)
(***************************************************************************)
MaxRequests == 1

\* the requests in flight that are not commands on order o
OtherRequests(o) ==
    InFlight + Cardinality({x \in OrderIds \ {o} : cmd[x] # "idle"})

\* the button's disabled attribute
ButtonDisabled(o) == orderActionIds(o)

CmdOf(what, o, to, text) == [what |-> what, id |-> o, to |-> to, text |-> text]

\* the list upsertOrder hands to applyOrders
RealtimeNext(c, p) == Upserted(c.orders, OrderOf(p), p.type = "order_status")

\* socket.onmessage
CmdRealtime(p) ==
    /\ Realtime(p)
    /\ book' = [book EXCEPT
                  !.toasts = IF Upserts(Client, p)
                             THEN applyOrdersToastSeq(ordersRef,
                                      RealtimeNext(Client, p), hasLoadedRef)
                             ELSE <<>>,
                  !.stored = IF Upserts(Client, p)
                             THEN applyOrdersStored(@, declinedOrdersRef,
                                      RealtimeNext(Client, p))
                             ELSE @,
                  !.last = NoCmd,
                  !.first = FALSE]

\* a turn that touches neither the order list nor storage
Unbooked == book' = [book EXCEPT !.toasts = <<>>, !.last = NoCmd, !.first = FALSE]

\* fetchOrders(showToasts) resumes with both responses
CmdFetchDone(k, merged) ==
    /\ FetchDone(k, merged)
    /\ book' = [book EXCEPT
                  !.toasts = applyOrdersToastSeq(ordersRef, merged,
                                                 k[1] /\ hasLoadedRef),
                  !.stored = applyOrdersStored(@, declinedOrdersRef, merged),
                  !.fetched = TRUE,
                  !.first = ~fetched,
                  !.last = NoCmd]

\* a request of updateStatus or declineOrder leaves
SendCommand(o, what) ==
    /\ OtherRequests(o) < MaxRequests
    /\ cmd' = [cmd EXCEPT ![o] = what]
    /\ UNCHANGED <<ordersRef, declinedOrdersRef, orderEventTsRef, hasLoadedRef,
                   notifications, active, fetches, hidden>>

\* a click on a status button: updateStatus(o, target) up to its first await
ClickStatus(o, target, input) ==
    /\ ButtonShown(o, target)
    /\ ~ButtonDisabled(o)
    /\ IF updateStatusOutcome(orderActionIds(o), target, input) = "sent"
       THEN /\ SendCommand(o, target)
            /\ book' = [book EXCEPT
                          !.sent[o] = @ + 1,
                          !.toasts = <<>>,
                          !.first = FALSE,
                          !.last = CmdOf("sent", o, target, Reason(input))]
       ELSE /\ UNCHANGED <<active, reconcilerVars>>
            /\ book' = [book EXCEPT
                          !.toasts = <<>>,
                          !.first = FALSE,
                          !.last = CmdOf(updateStatusOutcome(orderActionIds(o),
                                                             target, input),
                                         o, target, input.text)]

\* a click on the decline button: declineOrder(order) up to its first await
ClickDecline(o, input) ==
    /\ poolOrders(o) \/ directOrders(o)
    /\ ~ButtonDisabled(o)
    /\ CASE declineOrderOutcome(orderActionIds(o), Local(o), input) = "sent" ->
              /\ SendCommand(o, "decline")
              /\ book' = [book EXCEPT
                            !.sent[o] = @ + 1,
                            !.reason[o] = Reason(input),
                            !.toasts = <<>>,
                            !.first = FALSE,
                            !.last = CmdOf("sent", o, "decline", Reason(input))]
         [] declineOrderOutcome(orderActionIds(o), Local(o), input) = "hidden" ->
              /\ DeclinePool(o)
              /\ book' = [book EXCEPT
                            !.stored = markDeclinedStored(declinedOrdersRef, o),
                            !.history = recordDecline(@, o, Reason(input)),
                            !.storedHistory = persistDeclinedHistory(
                                recordDecline(declinedHistory, o, Reason(input))),
                            !.toasts = <<>>,
                            !.first = FALSE,
                            !.last = CmdOf("hidden", o, "decline", Reason(input))]
         [] OTHER ->
              /\ UNCHANGED <<active, reconcilerVars>>
              /\ book' = [book EXCEPT
                            !.toasts = <<>>,
                            !.first = FALSE,
                            !.last = CmdOf(declineOrderOutcome(orderActionIds(o),
                                                               Local(o), input),
                                           o, "decline", input.text)]

\* the PATCH answered ok: updateOrderLocal, then await refreshDriver()
CmdStatusOk(o) ==
    /\ StatusOk(o)
    /\ book' = [book EXCEPT
                  !.sent[o] = @ - 1,
                  !.phase[o] = "refresh",
                  !.toasts = <<>>,
                  !.first = FALSE,
                  !.last = CmdOf("ok", o, cmd[o], <<>>)]

\* refreshDriver returned: await fetchOrders(true)
CmdRefreshDone(o) ==
    /\ cmd[o] = "sync"
    /\ phase[o] = "refresh"
    /\ book' = [book EXCEPT
                  !.phase[o] = "fetch",
                  !.toasts = <<>>,
                  !.first = FALSE,
                  !.last = NoCmd]
    /\ UNCHANGED <<active, reconcilerVars>>

\* the command's fetchOrders(true) resumes with both responses
CmdSynced(o, merged) ==
    /\ phase[o] = "fetch"
    /\ CommandSynced(o, merged)
    /\ book' = [book EXCEPT
                  !.toasts = applyOrdersToastSeq(ordersRef, merged, hasLoadedRef),
                  !.stored = applyOrdersStored(@, declinedOrdersRef, merged),
                  !.fetched = TRUE,
                  !.first = ~fetched,
                  !.phase[o] = "none",
                  !.last = NoCmd]

\* the request failed or was answered not-ok ("failed"); or refreshDriver
\* threw, or fetchOrders(true) returned from its catch ("ended")
CmdFailed(o) ==
    /\ CommandFailed(o)
    /\ book' = [book EXCEPT
                  !.sent[o] = IF cmd[o] = "sync" THEN @ ELSE @ - 1,
                  !.phase[o] = "none",
                  !.reason[o] = <<>>,
                  !.toasts = <<>>,
                  !.first = FALSE,
                  !.last = CmdOf(IF cmd[o] = "sync" THEN "ended" ELSE "failed",
                                 o, cmd[o], <<>>)]

\* the POST /decline answered ok: markDeclined, recordDecline, then
\* await fetchOrders(true)
CmdDeclineOk(o) ==
    /\ DeclineOk(o)
    /\ book' = [book EXCEPT
                  !.stored = markDeclinedStored(declinedOrdersRef, o),
                  !.history = recordDecline(@, o, reasonOf[o]),
                  !.storedHistory = persistDeclinedHistory(
                      recordDecline(declinedHistory, o, reasonOf[o])),
                  !.sent[o] = @ - 1,
                  !.phase[o] = "fetch",
                  !.reason[o] = <<>>,
                  !.toasts = <<>>,
                  !.first = FALSE,
                  !.last = CmdOf("declined", o, "decline", reasonOf[o])]

\* the events and the snapshots of a backend on which no other driver is
\* assigned an order; the events are about one order, the snapshots carry both
CmdEventIds == {"o2"}

CmdPayloads == {p \in SpecPayloads : p.driver_id # Other /\ p.id \in CmdEventIds}

CmdSnapshots ==
    {m \in AllSnapshots : \A i \in 1..Len(m) : m[i].driver_id # Other}

QuietCmd == UNCHANGED <<ev, sync, chan, store, panel>>

NextCmd ==
    \/ \E p \in CmdPayloads : CmdRealtime(p) /\ QuietCmd
    \/ PollFetch /\ Unbooked /\ QuietCmd
    \/ \E k \in {x \in FetchKinds : fetches[x] > 0} :
          \E m \in CmdSnapshots : CmdFetchDone(k, m) /\ QuietCmd
    \/ \E k \in FetchKinds : FetchFailed(k) /\ Unbooked /\ QuietCmd
    \/ \E o \in OrderIds, t \in Targets :
          \E input \in IF t = "cancelled" THEN Inputs ELSE {Dismissed} :
             ClickStatus(o, t, input) /\ QuietCmd
    \/ \E o \in OrderIds, input \in Inputs : ClickDecline(o, input) /\ QuietCmd
    \/ \E o \in OrderIds : CmdStatusOk(o) /\ QuietCmd
    \/ \E o \in OrderIds : CmdRefreshDone(o) /\ QuietCmd
    \/ \E o \in {x \in OrderIds : phase[x] = "fetch"} :
          \E m \in CmdSnapshots : CmdSynced(o, m) /\ QuietCmd
    \/ \E o \in OrderIds : CmdFailed(o) /\ QuietCmd
    \/ \E o \in OrderIds : CmdDeclineOk(o) /\ QuietCmd

SpecCmd == Init /\ [][NextCmd]_vars

(***************************************************************************)
(* C12.  applyOrders(next, true) emits exactly one new-order toast for     *)
(* each order of next whose id is not in the previous list, exactly one    *)
(* status-changed toast for each order of next that is in the previous     *)
(* list with another status, and no other toast; applyOrders(next, false)  *)
(* emits none.  Checked at each of its callers: fetchOrders from a fetch,  *)
(* fetchOrders from a command, and upsertOrder.                            *)
(***************************************************************************)
Count(seq, x) == Cardinality({i \in 1..Len(seq) : seq[i] = x})

IsNew(id, prev, nextOrders) == id \in Ids(nextOrders) /\ id \notin Ids(prev)

IsChanged(id, prev, nextOrders) ==
    /\ id \in Ids(nextOrders)
    /\ id \in Ids(prev)
    /\ prev[FindIndex(prev, id)].status
          # nextOrders[FindIndex(nextOrders, id)].status

ExactToasts(emitted, prev, nextOrders, showToasts) ==
    /\ \A id \in OrderIds :
          /\ Count(emitted, Toast("new", id)) =
                 (IF showToasts /\ IsNew(id, prev, nextOrders) THEN 1 ELSE 0)
          /\ Count(emitted, Toast("status", id)) =
                 (IF showToasts /\ IsChanged(id, prev, nextOrders) THEN 1 ELSE 0)
    /\ \A i \in 1..Len(emitted) : emitted[i].kind \in {"new", "status"}

C12_ExactToasts ==
    [][/\ \A k \in FetchKinds, m \in CmdSnapshots :
             CmdFetchDone(k, m) =>
                 ExactToasts(toasts', ordersRef, m, k[1] /\ hasLoadedRef)
       /\ \A o \in OrderIds, m \in CmdSnapshots :
             CmdSynced(o, m) => ExactToasts(toasts', ordersRef, m, hasLoadedRef)
       /\ \A p \in CmdPayloads :
             (CmdRealtime(p) /\ Upserts(Client, p)) =>
                 ExactToasts(toasts', ordersRef, RealtimeNext(Client, p),
                             hasLoadedRef)]_vars

\* one turn has emitted a new-order toast and a status-changed toast
C12_Witness ==
    /\ Len(toasts) = 2
    /\ \E i, j \in 1..2 : toasts[i].kind = "new" /\ toasts[j].kind = "status"

(***************************************************************************)
(* C13.  The first fetchOrders call of the session that succeeds emits no  *)
(* new-order and no status-changed toast, whatever came before it.         *)
(***************************************************************************)
C13_FirstFetchSilent == firstFetch => toasts = <<>>

(***************************************************************************)
(* C14.  After markDeclined(id) the order is not in the order list and id  *)
(* is in the decline set; and the array stored under the driver's key      *)
(* always holds exactly the ids of the in-memory decline set, after        *)
(* markDeclined as after the purge of applyOrders.                         *)
(***************************************************************************)
C14_DeclinesPersisted ==
    /\ Range(storedDeclines) = declinedOrdersRef
    /\ Len(storedDeclines) = Cardinality(declinedOrdersRef)
    /\ lastCmd.what \in {"hidden", "declined"} =>
          /\ lastCmd.id \notin Ids(ordersRef)
          /\ lastCmd.id \in declinedOrdersRef

\* both orders have been declined and the purge of applyOrders has since
\* taken one of them out of the set
C14_Witness ==
    /\ Len(declinedHistory) = 2
    /\ Cardinality(declinedOrdersRef) = 1
    /\ Len(storedDeclines) = 1
    /\ lastCmd.what = "none"

(***************************************************************************)
(* C15.  Declining a pool order with a non-empty reason sends no request,  *)
(* removes the order from the list and puts at the head of the decline     *)
(* history an entry for it with status declined and the reason entered;    *)
(* and the order stays out of the list while the inputs that follow (the   *)
(* resync that a push event about another order triggers among them) carry *)
(* it pending and unassigned.                                              *)
(***************************************************************************)
NonBlank(input) == input.ok /\ \E i \in 1..Len(input.text) : input.text[i] # " "

C15_PoolDecline ==
    /\ [][\A o \in OrderIds, input \in Inputs :
             (ClickDecline(o, input) /\ poolOrders(o) /\ NonBlank(input)) =>
                 /\ UNCHANGED <<fetches, cmd, sent>>
                 /\ o \notin Ids(ordersRef')
                 /\ declinedHistory' # <<>>
                 /\ Head(declinedHistory') =
                        [id |-> o, status |-> "declined", driver_id |-> Me,
                         reason |-> Reason(input)]]_vars
    /\ [](\A o \in OrderIds :
             hidden[o] \in {"declined", "resent"} => o \notin Ids(ordersRef))

\* o1 was declined from the pool with the reason "a"; a later resync has
\* carried it still pending and unassigned, next to o2, which push events
\* brought
C15_Witness ==
    /\ hidden["o1"] = "resent"
    /\ declinedHistory # <<>>
    /\ Head(declinedHistory).id = "o1"
    /\ Head(declinedHistory).reason = <<"a">>
    /\ ~InList("o1")
    /\ InList("o2")
    /\ fetched
    /\ notifications # <<>>

(***************************************************************************)
(* C17.  updateStatus(id, "cancelled") sends the command only if the       *)
(* reason typed in the prompt is non-empty once trimmed: when the prompt   *)
(* is dismissed, left empty or filled with spaces, no request is sent and  *)
(* the order list and the busy flags stay as they are.                     *)
(***************************************************************************)
C17_CancelNeedsReason ==
    [][\A o \in OrderIds, input \in Inputs :
          (ClickStatus(o, "cancelled", input) /\ ~NonBlank(input)) =>
              UNCHANGED <<ordersRef, cmd, sent, fetches>>]_vars

\* a cancel was asked with a reason made of spaces
C17_Witness ==
    /\ lastCmd.what = "no-reason"
    /\ lastCmd.to = "cancelled"
    /\ lastCmd.text = <<" ">>

(***************************************************************************)
(* C18.  When the status command of an order returns success, the local    *)
(* copy of the order takes the target status and this driver's id in the   *)
(* same turn, and a full order fetch is then issued: the command goes from *)
(* awaiting refreshDriver to awaiting fetchOrders(true).                   *)
(***************************************************************************)
C18_PatchThenFetch ==
    /\ []((lastCmd.what = "ok" /\ InList(lastCmd.id)) =>
             /\ Local(lastCmd.id).status = lastCmd.to
             /\ Local(lastCmd.id).driver_id = Me)
    /\ [][\A o \in OrderIds :
             phase[o] = "refresh" => phase'[o] \in {"refresh", "fetch"}]_vars

(***************************************************************************)
(* C19.  When a status command or a server-side decline fails (not-ok      *)
(* answer or network failure), the order list, the decline set, the        *)
(* decline history and storage stay as they are, no request is sent, none  *)
(* is left in flight for the order, and the busy flag of the order is      *)
(* cleared.                                                                *)
(***************************************************************************)
C19_FailureChangesNothing ==
    [][\A o \in OrderIds :
          (CmdFailed(o) /\ cmd[o] \in Targets \cup {"decline"}) =>
              /\ UNCHANGED <<ordersRef, declinedOrdersRef, declinedHistory,
                             storedDeclines, storedHistory, fetches>>
              /\ cmd'[o] = "idle"
              /\ sent'[o] = 0
              /\ phase'[o] = "none"]_vars

\* a server-side decline has failed, the order still in the list
C19_Witness ==
    /\ lastCmd.what = "failed"
    /\ lastCmd.to = "decline"
    /\ InList(lastCmd.id)
    /\ cmd[lastCmd.id] = "idle"

(***************************************************************************)
(* C20.  For every order, at most one command (status PATCH or decline     *)
(* POST) of this client is in flight at any time.                          *)
(***************************************************************************)
C20_OneCommandPerOrder == \A o \in OrderIds : sent[o] <= 1

\* the PATCH of o1 is in flight while the view still shows the button that
\* sent it
C20_Witness ==
    /\ sent["o1"] = 1
    /\ cmd["o1"] = "accepted"
    /\ ButtonShown("o1", "accepted")
    /\ ButtonDisabled("o1")

(***************************************************************************)
(* SpecHistory: the decline history of a logged-in driver under a sequence *)
(* of recordDecline calls.  Orders are numbered in the order of their      *)
(* first decline; an order of the history may be declined again (it came   *)
(* back and was declined with another reason).                             *)
(***************************************************************************)
MaxDeclines == 82
MaxRedeclines == 1

HistoryIds(history) == {history[i].id : i \in 1..Len(history)}

\* recordDecline(order, reason) with its state updater: the ref, the state
\* and the stored array all take the new list
RecordDecline(id, reason) ==
    /\ book' = [book EXCEPT
                  !.history = recordDecline(@, id, reason),
                  !.storedHistory =
                      persistDeclinedHistory(recordDecline(declinedHistory, id, reason)),
                  !.declines = IF id \in HistoryIds(declinedHistory) THEN @ ELSE @ + 1,
                  !.redeclines = IF id \in HistoryIds(declinedHistory) THEN @ + 1 ELSE @]
    /\ UNCHANGED <<ordersRef, declinedOrdersRef, orderEventTsRef, hasLoadedRef,
                   notifications, active, fetches, cmd, hidden>>

\* an order is declined for the first time
DeclineFresh ==
    /\ declines < MaxDeclines
    /\ RecordDecline(declines + 1, <<"a">>)

\* an order of the history is declined again: the newest, the oldest or the
\* one in the middle
DeclineAgain ==
    /\ redeclines < MaxRedeclines
    /\ declinedHistory # <<>>
    /\ \E i \in {1, (Len(declinedHistory) + 1) \div 2, Len(declinedHistory)} :
           RecordDecline(declinedHistory[i].id, <<"b">>)

QuietHistory == UNCHANGED <<ev, sync, chan, store, panel>>

NextHistory ==
    \/ DeclineFresh /\ QuietHistory
    \/ DeclineAgain /\ QuietHistory

SpecHistory == Init /\ [][NextHistory]_vars

\* the place of the entry of an order in a history
Place(history, id) == CHOOSE i \in 1..Len(history) : history[i].id = id

(***************************************************************************)
(* C16.  After any sequence of recordDecline calls the decline history, in *)
(* memory and as stored, holds at most 80 entries and at most one per      *)
(* order, most recent decline first: each call puts its order at the head  *)
(* and leaves the other entries in their order; when the history is full   *)
(* and the order is not in it, the entry dropped is the last, the oldest.  *)
(***************************************************************************)
C16_BoundedHistory ==
    /\ [](/\ Len(declinedHistory) <= 80
          /\ \A i, j \in 1..Len(declinedHistory) :
                 declinedHistory[i].id = declinedHistory[j].id => i = j
          /\ storedHistory = declinedHistory)
    /\ [][\A id \in HistoryIds(declinedHistory) \cup {declines + 1},
              reason \in {<<"a">>, <<"b">>} :
             RecordDecline(id, reason) =>
                 /\ Head(declinedHistory').id = id
                 /\ Head(declinedHistory').reason = reason
                 /\ HistoryIds(declinedHistory') =
                        IF Len(declinedHistory) = 80 /\ id \notin HistoryIds(declinedHistory)
                        THEN (HistoryIds(declinedHistory)
                                 \ {declinedHistory[80].id}) \cup {id}
                        ELSE HistoryIds(declinedHistory) \cup {id}
                 /\ \A i \in 2..(Len(declinedHistory') - 1) :
                        Place(declinedHistory, declinedHistory'[i].id)
                            < Place(declinedHistory, declinedHistory'[i + 1].id)]_vars

\* the 81st distinct order has been declined, after the oldest was declined
\* again: the entry of the second order is the one that went
C16_Witness ==
    /\ declines = 81
    /\ redeclines = 1
    /\ Len(declinedHistory) = 80
    /\ declinedHistory[1].id = 81
    /\ declinedHistory[80].id = 3
    /\ 1 \in HistoryIds(declinedHistory)
    /\ 2 \notin HistoryIds(declinedHistory)

(***************************************************************************)
(* SpecMsg: the onmessage handlers of the two sessions, fed with the text  *)
(* of push messages.  A message is                                         *)
(*   [json, kind, type, order, id, status, driver_id, store_id, ts,        *)
(*    balance, tx]                                                         *)
(* json says whether JSON.parse reads the text; kind is the kind of value  *)
(* it yields ("object", "null" or "number"); the other fields are those of *)
(* the object, Absent when the object has no such field.  order is         *)
(* "object" when payload.order is an order (its id, status and driver_id   *)
(* are then the fields id, status and driver_id), "string" when it is a    *)
(* string; for the other types id is payload.order_id.                     *)
(***************************************************************************)
BlankMsg ==
    [json |-> TRUE, kind |-> "object", type |-> Absent, order |-> Absent,
     id |-> Absent, status |-> Absent, driver_id |-> Absent,
     store_id |-> Absent, ts |-> NoTs, balance |-> Absent, tx |-> Absent]

\* JSON.parse(event.data): throws, or yields the value
JsonParse(raw) ==
    IF raw.json THEN [threw |-> FALSE, value |-> raw] ELSE [threw |-> TRUE]

\* typeof x === "string"
IsString(x) == x \notin {Absent, NonString}

\* payload.order && typeof payload.order === "object"
IsObject(x) == x = "object"

\* the payload that handleRealtime reads from an order event
PayloadOf(v) ==
    [type |-> v.type, id |-> v.id,
     status |-> IF IsString(v.status) THEN v.status ELSE Null,
     driver_id |-> IF IsString(v.driver_id) THEN v.driver_id ELSE NoDriver,
     loc |-> v.type = "order_created", ts |-> v.ts]

\* the page as the driver's handler sees it
Page ==
    [c |-> Client, driver |-> driver, lastStatus |-> lastDriverStatusRef,
     transactions |-> transactions]

\* the wallet_transaction branch applies to the drivers of any message
WalletForAnyone(v) == TRUE

\* typeof payload.driver_id === "string", then payload.driver_id === driver.id
WalletFor(v) == IsString(v.driver_id) /\ v.driver_id = Me

\* the wallet_transaction branch
handleWallet(pg, v) ==
    LET credited == IF v.balance # Absent
                    THEN [pg EXCEPT !.driver.wallet_balance = v.balance]
                    ELSE pg
    IN  IF v.tx = Absent THEN credited
        ELSE [credited EXCEPT
                !.transactions = Take(<<v.tx>> \o @, 6),
                !.c.notifications = pushNotification(@, <<"wallet", v.tx>>)]

\* the driver_status branch
handleDriverStatus(pg, v) ==
    IF ~(IsString(v.driver_id) /\ v.driver_id = Me) THEN pg
    ELSE IF ~IsString(v.status) THEN pg
    ELSE IF pg.lastStatus = v.status THEN pg
    ELSE [pg EXCEPT !.lastStatus = v.status,
                    !.driver.status = v.status,
                    !.c.notifications = pushNotification(@, <<"driver", "status">>)]

\* the message is an order event that handleRealtime takes
IsOrderEvent(v) ==
    \/ v.type = "order_created" /\ IsObject(v.order)
    \/ v.type = "order_status" /\ IsString(v.id)

\* handleRealtime(payload), all four branches
handleRealtimeAll(pg, v) ==
    IF IsOrderEvent(v) THEN [pg EXCEPT !.c = handleRealtime(pg.c, PayloadOf(v))]
    ELSE IF v.type = "wallet_transaction" /\ WalletFor(v) THEN handleWallet(pg, v)
    ELSE IF v.type = "driver_status" THEN handleDriverStatus(pg, v)
    ELSE pg

\* the try block of the driver's socket.onmessage: JSON.parse throws on a
\* text that is not JSON, and payload.type throws on null; the catch ignores
\* both
onmessage(pg, raw) ==
    IF JsonParse(raw).threw THEN pg
    ELSE IF JsonParse(raw).value.kind = "null" THEN pg
    ELSE IF JsonParse(raw).value.kind # "object" THEN pg
    ELSE handleRealtimeAll(pg, JsonParse(raw).value)

\* the message reaches handleRealtime as an order event
ReachesOrders(raw) ==
    /\ ~JsonParse(raw).threw
    /\ JsonParse(raw).value.kind = "object"
    /\ IsOrderEvent(JsonParse(raw).value)

\* handleStoreEvent(payload) on the storeOrders state
handleStoreEvent(track, orders, v) ==
    IF IsString(v.store_id) /\ v.store_id # track THEN orders
    ELSE IF v.type = "order_created" /\ IsObject(v.order)
    THEN upsertStoreOrder(orders, [id |-> v.id, status |-> v.status])
    ELSE IF v.type = "order_status" /\ IsString(v.id)
    THEN upsertStoreOrder(orders,
            [id |-> v.id,
             status |-> IF IsString(v.status) THEN v.status ELSE Null])
    ELSE orders

\* the try block of the store's socket.onmessage
storeOnmessage(track, orders, raw) ==
    IF JsonParse(raw).threw THEN orders
    ELSE IF JsonParse(raw).value.kind # "object" THEN orders
    ELSE handleStoreEvent(track, orders, JsonParse(raw).value)

\* the texts that are not JSON, and the texts of null and of a number
Garbage == [BlankMsg EXCEPT !.json = FALSE, !.type = "order_status", !.id = "o1",
                            !.status = "accepted", !.driver_id = Me]
JsonNull == [BlankMsg EXCEPT !.kind = "null"]
JsonNumber == [BlankMsg EXCEPT !.kind = "number"]

\* the events the backend pushes to the driver
DriverEvents ==
    {[BlankMsg EXCEPT !.type = "order_created", !.order = "object", !.id = "o1",
                      !.status = "pending"]}
    \cup {[BlankMsg EXCEPT !.type = "order_status", !.id = "o1",
                           !.status = "accepted", !.driver_id = Me, !.ts = t] :
             t \in {NoTs, 1}}
    \cup {[BlankMsg EXCEPT !.type = "wallet_transaction", !.driver_id = d,
                           !.balance = "b5", !.tx = "t1"] : d \in {Me, Other}}
    \cup {[BlankMsg EXCEPT !.type = "driver_status", !.driver_id = Me,
                           !.status = "busy"]}

\* the events the backend pushes to a store
StoreEvents ==
    {[BlankMsg EXCEPT !.type = "order_created", !.order = "object", !.id = "o1",
                      !.status = "pending", !.store_id = sid] :
        sid \in {Absent, "s2"}}
    \cup {[BlankMsg EXCEPT !.type = "order_status", !.id = "o1",
                           !.status = "delivered"]}

\* the events with their type removed or replaced, or with the field their
\* branch tests removed or replaced by a value of another type
Stripped(m) ==
    {[m EXCEPT !.type = t] : t \in {Absent, "pong"}}
    \cup (IF m.type = "order_created"
          THEN {[m EXCEPT !.order = x] : x \in {Absent, "string"}}
          ELSE IF m.type = "order_status"
          THEN {[m EXCEPT !.id = x] : x \in {Absent, NonString}}
          ELSE {[m EXCEPT !.driver_id = x] : x \in {Absent, NonString}})

Malformed(events) ==
    {Garbage, JsonNull, JsonNumber} \cup UNION {Stripped(m) : m \in events}

\* the wallet transactions the backend sends in SpecMsg
MaxTx == 2

\* socket.onmessage of the driver session
MsgDriver(raw) ==
    /\ active[Driver]
    /\ raw.tx # Absent => Len(transactions) < MaxTx
    /\ ReachesOrders(raw) /\ handleRealtimeFetches(Client, PayloadOf(raw))
          => Pending < MaxInFlight
    /\ fetches' =
          IF ReachesOrders(raw) /\ handleRealtimeFetches(Client, PayloadOf(raw))
          THEN safeFetchOrders(fetches, active[Driver], FALSE)
          ELSE fetches
    /\ \E pg \in {onmessage(Page, raw)} :
          /\ Install(pg.c)
          /\ panel' = [panel EXCEPT !.driver = pg.driver,
                                    !.lastStatus = pg.lastStatus,
                                    !.transactions = pg.transactions,
                                    !.msg = [role |-> Driver, text |-> raw]]
    /\ hidden' = IF ReachesOrders(raw) /\ Passes(Client, PayloadOf(raw))
                 THEN Seen(hidden, <<OrderOf(PayloadOf(raw))>>)
                 ELSE hidden
    /\ UNCHANGED <<active, cmd, store>>

\* socket.onmessage of the store session
MsgStore(raw) ==
    /\ storeTrack # Null
    /\ store' = [store EXCEPT !.orders = storeOnmessage(storeTrack, @, raw)]
    /\ panel' = [panel EXCEPT !.msg = [role |-> Store, text |-> raw]]
    /\ UNCHANGED <<ordersRef, declinedOrdersRef, orderEventTsRef, hasLoadedRef,
                   notifications, active, fetches, cmd, hidden>>

MsgSnapshots == {<<>>, <<[id |-> "o1", status |-> "pending", driver_id |-> Me,
                          loc |-> TRUE]>>}

QuietMsg == UNCHANGED <<ev, sync, chan, book>>

NextMsg ==
    \/ \E raw \in DriverEvents \cup Malformed(DriverEvents) :
          MsgDriver(raw) /\ QuietMsg
    \/ \E k \in FetchKinds, m \in MsgSnapshots :
          FetchDone(k, m) /\ UNCHANGED <<store, panel>> /\ QuietMsg
    \/ \E k \in FetchKinds : FetchFailed(k) /\ UNCHANGED <<store, panel>> /\ QuietMsg
    \/ LoginStore("s1") /\ UNCHANGED panel /\ QuietStore
    \/ LoginStoreOk(<<>>) /\ UNCHANGED panel /\ QuietStore
    \/ \E raw \in StoreEvents \cup Malformed(StoreEvents) :
          MsgStore(raw) /\ QuietMsg

SpecMsg == Init /\ [][NextMsg]_vars

(***************************************************************************)
(* C21.  A push message that is not valid JSON, or that parses to a value  *)
(* without a recognised type, or with a recognised type but without the    *)
(* field its branch of the handler tests, changes nothing: the order list, *)
(* the notification feed, the driver record, the wallet transactions, the  *)
(* recorded timestamps, the store's orders, the requests in flight and the *)
(* channel (socket, timers) are as before.                                 *)
(***************************************************************************)
C21_MalformedIgnored ==
    [][/\ \A raw \in Malformed(DriverEvents) :
             (lastMsg' = [role |-> Driver, text |-> raw] /\ MsgDriver(raw)) =>
                 UNCHANGED <<ordersRef, notifications, orderEventTsRef,
                             declinedOrdersRef, hasLoadedRef, fetches, active,
                             chan, store>>
                 /\ driver' = driver
                 /\ transactions' = transactions
                 /\ lastDriverStatusRef' = lastDriverStatusRef
       /\ \A raw \in Malformed(StoreEvents) :
             (lastMsg' = [role |-> Store, text |-> raw] /\ MsgStore(raw)) =>
                 UNCHANGED <<ordersRef, notifications, orderEventTsRef, store,
                             active, chan>>
                 /\ driver' = driver
                 /\ transactions' = transactions]_vars

\* a wallet event without its driver_id has been handled by a page that
\* holds an order, a wallet transaction and notifications
C21_Witness ==
    /\ lastMsg.role = Driver
    /\ lastMsg.text.type = "wallet_transaction"
    /\ lastMsg.text.driver_id = Absent
    /\ lastMsg.text.tx = "t1"
    /\ driver.wallet_balance = "b5"
    /\ transactions = <<"t1">>
    /\ ordersRef # <<>>
    /\ Len(notifications) = 3
    /\ storeOrders # <<>>

(***************************************************************************)
(* SpecSwitch: two driver identities, Me and Other, use the same browser   *)
(* one after the other.  logout reloads the page, so nothing of a session  *)
(* but localStorage outlives it.  The orders are pool orders; the session  *)
(* starts with Me logged in.                                               *)
(***************************************************************************)
MaxLogins == 2

\* one key for every identity
StorageKeyShared(id) == Me

\* the identity in `nova.driver.declined.${driverId}` and in
\* `nova.driver.declined.history.${driverId}`
StorageKey(id) == id

\* declinedHistory.filter(order => order.driver_id === driverId || !order.driver_id)
declinedEntries(history, id) ==
    SelectSeq(history, LAMBDA e : e.driver_id = id \/ e.driver_id = NoDriver)

\* the entry of recordDecline carries driver_id: driver.id
recordDeclineAs(id, history, orderId, reason) ==
    [recordDecline(history, orderId, reason) EXCEPT ![1].driver_id = id]

PoolSnapshots ==
    {m \in AllSnapshots : \A i \in 1..Len(m) : IsPool(m[i])}

\* declineOrder on a pool order: markDeclined, recordDecline
SwitchDecline(o) ==
    /\ driverId # Null
    /\ poolOrders(o)
    /\ DeclinePool(o)
    /\ book' = [book EXCEPT
                  !.history = recordDeclineAs(driverId, @, o, <<"a">>)]
    /\ panel' = [panel EXCEPT
                   !.keys[StorageKey(driverId)] =
                       [declined |-> markDeclinedStored(declinedOrdersRef, o),
                        history |-> persistDeclinedHistory(
                            recordDeclineAs(driverId, declinedHistory, o, <<"a">>))],
                   !.by[driverId] = @ \cup {o}]

\* logout: the session keys are removed and the page reloads
SwitchLogout ==
    /\ driverId # Null
    /\ ordersRef' = <<>>
    /\ declinedOrdersRef' = {}
    /\ orderEventTsRef' = [o \in OrderIds |-> 0]
    /\ hasLoadedRef' = FALSE
    /\ notifications' = <<>>
    /\ active' = [active EXCEPT ![Driver] = FALSE]
    /\ fetches' = NoFetches
    /\ cmd' = [o \in OrderIds |-> "idle"]
    /\ hidden' = [o \in OrderIds |-> "no"]
    /\ book' = [book EXCEPT !.history = <<>>]
    /\ panel' = [panel EXCEPT
                   !.driverId = Null,
                   !.left[driverId] = [declined |-> declinedOrdersRef,
                                       history |-> declinedHistory]]

\* login resumes with data.driver: the two load effects read the keys of
\* the identity, the realtime effect starts
SwitchLogin(id) ==
    /\ driverId = Null
    /\ logins[id] < MaxLogins
    /\ declinedOrdersRef' = Range(keys[StorageKey(id)].declined)
    /\ book' = [book EXCEPT !.history = keys[StorageKey(id)].history]
    /\ active' = [active EXCEPT ![Driver] = TRUE]
    /\ fetches' = safeFetchOrders(NoFetches, TRUE, FALSE)
    /\ panel' = [panel EXCEPT !.driverId = id, !.logins[id] = @ + 1]
    /\ UNCHANGED <<ordersRef, orderEventTsRef, hasLoadedRef, notifications, cmd,
                   hidden>>

QuietSwitch == UNCHANGED <<ev, sync, chan, store>>

NextSwitch ==
    \/ \E o \in OrderIds : SwitchDecline(o) /\ QuietSwitch
    \/ SwitchLogout /\ QuietSwitch
    \/ \E id \in {Me, Other} : SwitchLogin(id) /\ QuietSwitch
    \/ PollFetch /\ UNCHANGED <<book, panel>> /\ QuietSwitch
    \/ \E k \in FetchKinds, m \in PoolSnapshots :
          FetchDone(k, m) /\ UNCHANGED <<book, panel>> /\ QuietSwitch
    \/ \E k \in FetchKinds : FetchFailed(k) /\ UNCHANGED <<book, panel>> /\ QuietSwitch

SpecSwitch == Init /\ [][NextSwitch]_vars

(***************************************************************************)
(* C22.  For two identities that use the same browser one after the other: *)
(* the decline set and the history view of the identity logged in hold     *)
(* only orders that this identity declined, and a pool order it did not    *)
(* decline is listed when a fetch delivers it; what is stored for the      *)
(* other identity never changes; and an identity that logs in again finds  *)
(* the decline set and the history it had when it logged out.              *)
(***************************************************************************)
C22_PerDriverDeclines ==
    /\ [](driverId # Null =>
             /\ declinedOrdersRef \subseteq declinedBy[driverId]
             /\ \A i \in 1..Len(declinedEntries(declinedHistory, driverId)) :
                    declinedEntries(declinedHistory, driverId)[i].id
                        \in declinedBy[driverId])
    /\ [][/\ \A k \in FetchKinds, m \in PoolSnapshots :
                FetchDone(k, m) =>
                    \A o \in Ids(m) \ declinedBy[driverId] : o \in Ids(ordersRef')
          /\ \A id \in {Me, Other} : id # driverId => keys'[id] = keys[id]
          /\ \A id \in {Me, Other} :
                SwitchLogin(id) =>
                    /\ declinedOrdersRef' = left[id].declined
                    /\ declinedHistory' = left[id].history]_vars

\* Me declined o1 and logged out, Other declined o2 and logged out, and Me
\* is logged in again, with o2 in its pool
C22_Witness ==
    /\ driverId = Me
    /\ logins[Me] = 2
    /\ declinedBy[Other] = {"o2"}
    /\ declinedBy[Me] = {"o1"}
    /\ declinedOrdersRef = {"o1"}
    /\ Len(declinedHistory) = 1
    /\ "o2" \in Ids(ordersRef)
    /\ keys[Other].declined = <<"o2">>

(***************************************************************************)
(* C23.  Every status command the client sends follows an edge of the      *)
(* order state machine from the status the order has locally: accepted     *)
(* only from pending, delivering only from accepted, delivered only from   *)
(* delivering, cancelled only from a status that is not terminal; and no   *)
(* command, status or decline, is sent for an order that is locally        *)
(* delivered or cancelled.                                                 *)
(***************************************************************************)
Edge(from, to) ==
    \/ to = "accepted" /\ from = "pending"
    \/ to = "delivering" /\ from = "accepted"
    \/ to = "delivered" /\ from = "delivering"
    \/ to = "cancelled" /\ from \notin {"delivered", "cancelled"}

C23_CommandsFollowEdges ==
    [][\A o \in OrderIds :
          (cmd[o] = "idle" /\ cmd'[o] # "idle") =>
              /\ InList(o)
              /\ Local(o).status \notin {"delivered", "cancelled"}
              /\ cmd'[o] \in Targets => Edge(Local(o).status, cmd'[o])]_vars

\* the PATCH to delivered of an order that is locally delivering is in
\* flight
C23_Witness ==
    /\ \E o \in OrderIds :
          /\ cmd[o] = "delivered"
          /\ sent[o] = 1
          /\ InList(o)
          /\ Local(o).status = "delivering"
    /\ lastCmd.what = "sent"
    /\ lastCmd.to = "delivered"

(***************************************************************************)
(* C24.  An order_created or order_status event that carries no timestamp  *)
(* passes the timestamp guard whatever timestamp is recorded for its       *)
(* order, and leaves the recorded timestamps as they are; when it reaches  *)
(* the reconciler (an order_status event, or an order_created event that   *)
(* is for this driver or for the pool while the driver is free) the local  *)
(* copy of the order takes the status and the assignment of the event, the *)
(* last to arrive, and is listed unless it is another driver's.            *)
(***************************************************************************)
Reconciles(p) ==
    \/ p.type = "order_status"
    \/ p.driver_id = Me
    \/ p.driver_id = NoDriver /\ ~isDriverBusy(ordersRef)

C25_PurgeWhenTaken ==
    [][\A k \in FetchKinds, m \in AllSnapshots :
          FetchDone(k, m) =>
              \A i \in 1..Len(m) :
                  ~(m[i].status = "pending" /\ m[i].driver_id = NoDriver)
                      => m[i].id \notin declinedOrdersRef']_vars

(***************************************************************************)
(* The history view.  The rows carry the times of the Order type           *)
(* (created_at, delivered_at, cancelled_at) and of DeclinedOrder           *)
(* (declined_at); a time that is missing is NoTs.  The list receives rows  *)
(* from the server, the decline history from recordDecline.                *)
(***************************************************************************)
MaxTime == 3
MaxRows == 3

Times == 1..MaxTime

OrderRow(id, status, d, created, delivered, cancelled) ==
    [id |-> id, status |-> status, driver_id |-> d, created_at |-> created,
     delivered_at |-> delivered, cancelled_at |-> cancelled,
     declined_at |-> NoTs]

\* recordDecline: {...order, status: "declined", driver_id: driver.id,
\* declined_at: now}
DeclinedRow(id, created, declined) ==
    [id |-> id, status |-> "declined", driver_id |-> Me,
     created_at |-> created, delivered_at |-> NoTs, cancelled_at |-> NoTs,
     declined_at |-> declined]

historyOrders(list, id) ==
    SelectSeq(list, LAMBDA o : o.driver_id = id
                               /\ o.status \in {"delivered", "cancelled"})

\* a.declined_at ?? a.created_at ?? ""
SortTime(row) ==
    IF row.declined_at # NoTs THEN row.declined_at ELSE row.created_at

\* the place of x in a list sorted by the comparator
\* Date.parse(bTime) - Date.parse(aTime); x precedes the rows it ties with
RECURSIVE InsertByTime(_, _)
InsertByTime(x, s) ==
    IF s = <<>> THEN <<x>>
    ELSE IF SortTime(Head(s)) <= SortTime(x) THEN <<x>> \o s
    ELSE <<Head(s)>> \o InsertByTime(x, Tail(s))

\* Array.prototype.sort is stable
RECURSIVE SortByTime(_)
SortByTime(s) ==
    IF s = <<>> THEN <<>> ELSE InsertByTime(Head(s), SortByTime(Tail(s)))

historyEntries(list, history, id) ==
    SortByTime(historyOrders(list, id) \o declinedEntries(history, id))

Rows == Len(dated.orders) + Len(dated.declinedHistory)

NextRowId == Rows + 1

\* a fetch answers the list with one more order, delivered or cancelled
\* at time t
ViewFinished(status, d, created, t) ==
    /\ Rows < MaxRows
    /\ created <= t
    /\ panel' = [panel EXCEPT !.dated.orders =
           Append(@, OrderRow(NextRowId, status, d, created,
                              IF status = "delivered" THEN t ELSE NoTs,
                              IF status = "cancelled" THEN t ELSE NoTs))]
    /\ UNCHANGED reconcilerVars

\* a fetch answers the list with one more order that is under way
ViewUnderWay(created) ==
    /\ Rows < MaxRows
    /\ panel' = [panel EXCEPT !.dated.orders =
           Append(@, OrderRow(NextRowId, "accepted", Me, created,
                              NoTs, NoTs))]
    /\ UNCHANGED reconcilerVars

\* recordDecline at time t: [entry, ...prev]
ViewDeclined(created, t) ==
    /\ Rows < MaxRows
    /\ created <= t
    /\ panel' = [panel EXCEPT !.dated.declinedHistory =
           <<DeclinedRow(NextRowId, created, t)>> \o @]
    /\ UNCHANGED reconcilerVars

QuietView == UNCHANGED <<ev, sync, chan, store, book, active>>

NextView ==
    \/ \E status \in {"delivered", "cancelled"}, d \in {Me, Other},
          created \in Times, t \in Times :
          ViewFinished(status, d, created, t) /\ QuietView
    \/ \E created \in Times : ViewUnderWay(created) /\ QuietView
    \/ \E created \in Times, t \in Times :
          ViewDeclined(created, t) /\ QuietView

SpecView == Init /\ [][NextView]_vars

(***************************************************************************)
(* C26.  The history view lists this driver's delivered and cancelled      *)
(* orders together with the decline-history entries, newest first by the   *)
(* time of the event that put each entry in history: the decline time of a *)
(* declined entry, the delivery time of a delivered order, the             *)
(* cancellation time of a cancelled one.                                   *)
(***************************************************************************)
C26_HistoryNewestFirst ==
    LET view == historyEntries(dated.orders, dated.declinedHistory, Me)
        EventTime(row) ==
            IF row.status = "declined" THEN row.declined_at
            ELSE IF row.status = "delivered" THEN row.delivered_at
            ELSE row.cancelled_at
    IN  /\ \A row \in Range(dated.orders) \cup Range(dated.declinedHistory) :
               (row.driver_id = Me
                /\ row.status \in {"delivered", "cancelled", "declined"})
                   <=> row \in Range(view)
        /\ Len(view) = Cardinality(Range(view))
        /\ \A i \in 1..Len(view) - 1 :
               EventTime(view[i]) >= EventTime(view[i + 1])

(***************************************************************************)
(* Resyncs that receive the list the server sent before.  The poll of the  *)
(* driver session calls safeFetchOrders(true) while the socket is not      *)
(* open; the pool endpoint answers every pending order, whoever it is      *)
(* assigned to.                                                            *)
(***************************************************************************)
ResyncSnapshots ==
    {m \in AllSnapshots :
        \A i \in 1..Len(m) : m[i].status = "pending" \/ m[i].driver_id = Me}

ResyncDone(k, m) ==
    /\ CmdFetchDone(k, m)
    /\ panel' = [panel EXCEPT
                   !.served = [list |-> m, showToasts |-> k[1] /\ hasLoadedRef]]

ResyncDecline(o) ==
    /\ DeclinePool(o)
    /\ Unbooked
    /\ panel' = [panel EXCEPT !.served = NoServed]

QuietResync == UNCHANGED <<ev, sync, chan, store>>

NextResync ==
    \/ PollFetch /\ Unbooked /\ UNCHANGED panel /\ QuietResync
    \/ \E k \in FetchKinds, m \in ResyncSnapshots :
          ResyncDone(k, m) /\ QuietResync
    \/ \E k \in FetchKinds :
          FetchFailed(k) /\ Unbooked /\ UNCHANGED panel /\ QuietResync
    \/ \E o \in OrderIds : ResyncDecline(o) /\ QuietResync

SpecResync == Init /\ [][NextResync]_vars

(***************************************************************************)
(* C27.  Reconciling the same server list twice in a row with toasts       *)
(* enabled emits no toast the second time, whatever the list holds:        *)
(* declined pool orders and pending orders of another driver included.     *)
(***************************************************************************)
C27_SameListNoToast ==
    [][\A k \in FetchKinds, m \in ResyncSnapshots :
          (/\ served = [list |-> m, showToasts |-> TRUE]
           /\ k[1] /\ hasLoadedRef
           /\ ResyncDone(k, m))
              => toasts' = <<>>]_vars

(***************************************************************************)
(* The idle client: a driver is logged in, nobody clicks and no push       *)
(* message arrives.  What runs are the effects keyed on [driver,           *)
(* secretCode], the responses of the requests they send, the timers and    *)
(* the events of the socket.                                               *)
(***************************************************************************)
MaxWalletCalls == 1

\* React runs the effects whose dependency changed identity: setDriver with
\* the object parsed from the response is such a change.  The cleanup of
\* the realtime effect closes the socket and clears the timers, its setup
\* calls startSocket() and safeFetchOrders(false); the effect of the
\* transactions calls fetchTransactions().
RerunEffects(pn) ==
    /\ InFlight < MaxInFlight
    /\ active' = [active EXCEPT ![Driver] = TRUE]
    /\ fetches' = safeFetchOrders(
           [k \in FetchKinds |->
               IF k[2] = "stale" THEN fetches[k] + fetches[<<k[1], "live">>]
               ELSE 0], TRUE, FALSE)
    /\ chan' = [chan EXCEPT
                  !.socket[Driver] = "connecting",
                  !.openPending[Driver] = FALSE,
                  !.retry[Driver] = 0,
                  !.failures[Driver] = 0,
                  !.reconnected[Driver] = FALSE,
                  !.reconnectTimer[Driver] = 0,
                  !.pollTimer[Driver] = TRUE,
                  !.pingTimer = FALSE,
                  !.lastTurn = [role |-> Driver, what |-> "setup",
                                fetch |-> TRUE, ping |-> FALSE,
                                socket |-> TRUE, delay |-> 0, n |-> 0,
                                first |-> TRUE]]
    /\ panel' = [pn EXCEPT !.calls.profile = @ + 1]

\* refreshDriver receives its response; fetchTransactions goes on with the
\* GET of the wallet transactions
ProfileDone(withDriver) ==
    /\ active[Driver]
    /\ calls.profile > 0
    /\ calls.wallet < MaxWalletCalls
    /\ LET pn == [panel EXCEPT !.calls.profile = @ - 1,
                               !.calls.wallet = @ + 1]
       IN  IF withDriver
           THEN RerunEffects(pn)
           ELSE /\ panel' = pn
                /\ UNCHANGED <<active, fetches, chan>>
    /\ UNCHANGED <<ordersRef, declinedOrdersRef, orderEventTsRef, hasLoadedRef,
                   notifications, cmd, hidden>>

\* the fetch of refreshDriver or its res.json() throws: catch { ignore }
ProfileFailed ==
    /\ calls.profile > 0
    /\ panel' = [panel EXCEPT !.calls.profile = @ - 1]
    /\ UNCHANGED <<active, chan, reconcilerVars>>

\* the GET of the wallet transactions ends
WalletDone(ok) ==
    /\ calls.wallet > 0
    /\ panel' = [panel EXCEPT
                   !.calls.wallet = @ - 1,
                   !.transactions = IF ok THEN <<"t1">> ELSE @]
    /\ UNCHANGED <<active, chan, reconcilerVars>>

IdleSnapshots == {m \in PoolSnapshots : Len(m) <= 1}

QuietIdle == UNCHANGED <<ev, sync, store, book>>

NextIdle ==
    \/ \E withDriver \in BOOLEAN : ProfileDone(withDriver) /\ QuietIdle
    \/ ProfileFailed /\ QuietIdle
    \/ \E ok \in BOOLEAN : WalletDone(ok) /\ QuietIdle
    \/ OnOpen(Driver) /\ UNCHANGED panel /\ QuietIdle
    \/ OnError(Driver) /\ UNCHANGED panel /\ QuietIdle
    \/ OnClose(Driver) /\ UNCHANGED panel /\ QuietIdle
    \/ ReconnectFire(Driver) /\ UNCHANGED panel /\ QuietIdle
    \/ PollTick(Driver) /\ UNCHANGED panel /\ QuietIdle
    \/ \E k \in FetchKinds, m \in IdleSnapshots :
          FetchDone(k, m) /\ UNCHANGED <<chan, panel>> /\ QuietIdle
    \/ \E k \in FetchKinds :
          FetchFailed(k) /\ UNCHANGED <<chan, panel>> /\ QuietIdle

SpecIdle == Init /\ [][NextIdle]_vars

(***************************************************************************)
(* C28.  With a driver logged in, no user action and no push message, the  *)
(* client settles: the realtime socket of the session, once open, is not   *)
(* torn down and reopened by the client itself.  An open socket stops      *)
(* being open only through an error or close event of the connection.      *)
(***************************************************************************)
C28_SocketKept ==
    [][socket[Driver] = "open" /\ socket'[Driver] # "open"
          => OnError(Driver) \/ OnClose(Driver)]_vars

(***************************************************************************)
(* C29.  An order_status push event that carries no driver_id leaves the   *)
(* local assignment of the order unchanged: an order assigned to this      *)
(* driver before the event is assigned to this driver after it, and is in  *)
(* one of the driver's views (direct, active or history).                  *)
(***************************************************************************)
\* directOrders, activeOrders and historyOrders all test
\* order.driver_id === driverId
MineIn(list, o) ==
    \E i \in 1..Len(list) : list[i].id = o /\ list[i].driver_id = Me

C29_AssignmentKept ==
    [][\A p \in SpecPayloads :
          (/\ p.type = "order_status"
           /\ p.driver_id = NoDriver
           /\ MineIn(ordersRef, p.id)
           /\ Realtime(p))
              => MineIn(ordersRef', p.id)]_vars

(***************************************************************************)
(* The realtime status of the store session.  setStoreRealtimeStatus is    *)
(* called by startSocket, by the onopen and onclose handlers of the        *)
(* socket and by fetchStoreOrders, which onopen and the poll interval      *)
(* call with silent = true.                                                *)
(***************************************************************************)
\* loginStore succeeds; the realtime effect of the store runs: startSocket()
\* and the poll interval
StatusLogin(list) ==
    /\ ~active[Store]
    /\ LoginStoreOk(list)
    /\ active' = [active EXCEPT ![Store] = TRUE]
    /\ chan' = [chan EXCEPT
                  !.socket[Store] = "connecting",
                  !.pollTimer[Store] = TRUE,
                  !.lastTurn = Turned(Store, "setup", FALSE, FALSE, TRUE, 0)]
    /\ panel' = [panel EXCEPT !.storeRealtimeStatus = "connecting"]
    /\ UNCHANGED reconcilerVars

\* socket.onopen: setStoreRealtimeStatus("connected"); fetchStoreOrders(true)
StatusOpen ==
    /\ OnOpen(Store)
    /\ StoreFetch
    /\ panel' = [panel EXCEPT !.storeRealtimeStatus = "connected"]

\* socket.onclose: if (!active) return; setStoreRealtimeStatus("disconnected")
StatusClose ==
    /\ OnClose(Store)
    /\ panel' = [panel EXCEPT !.storeRealtimeStatus =
                    IF active[Store] THEN "disconnected" ELSE @]
    /\ UNCHANGED store

\* the reconnect timer fires: startSocket()
StatusReconnect ==
    /\ ReconnectFire(Store)
    /\ panel' = [panel EXCEPT !.storeRealtimeStatus = "connecting"]
    /\ UNCHANGED store

\* the poll interval: fetchStoreOrders(true) unless the socket is open
StatusPoll ==
    /\ PollTick(Store)
    /\ IF PollFetches(socket[Store]) THEN StoreFetch ELSE UNCHANGED store
    /\ UNCHANGED panel

\* fetchStoreOrders resumes with data.ok and data.orders
StatusFetchDone(list, withStore) ==
    /\ storeTrack # Null
    /\ StoreFetchDone(storeTrack, list, withStore)
    /\ panel' = [panel EXCEPT !.storeRealtimeStatus = "connected"]
    /\ UNCHANGED <<active, chan, reconcilerVars>>

\* a silent fetchStoreOrders resumes with a body that is not ok, or throws
StatusFetchFailed(thrown) ==
    /\ storeTrack # Null
    /\ StoreFetchFailed(storeTrack)
    /\ panel' = [panel EXCEPT !.storeRealtimeStatus =
                    IF thrown THEN "disconnected" ELSE @]
    /\ UNCHANGED <<active, chan, reconcilerVars>>

QuietStatus == UNCHANGED <<ev, sync, book>>

NextStatus ==
    \/ LoginStore("s1") /\ QuietStore
    \/ \E list \in StoreLists : StatusLogin(list) /\ QuietStatus
    \/ StatusOpen /\ QuietStatus
    \/ OnError(Store) /\ UNCHANGED <<store, panel>> /\ QuietStatus
    \/ StatusClose /\ QuietStatus
    \/ StatusReconnect /\ QuietStatus
    \/ StatusPoll /\ QuietStatus
    \/ \E list \in StoreLists, withStore \in BOOLEAN :
          StatusFetchDone(list, withStore) /\ QuietStatus
    \/ \E thrown \in BOOLEAN : StatusFetchFailed(thrown) /\ QuietStatus

SpecStatus == Init /\ [][NextStatus]_vars

(***************************************************************************)
(* C30.  In a store session the displayed realtime status is "connected"   *)
(* only while the websocket of the store is open: the status becomes       *)
(* "connected" only in a state where the socket is open, so after the      *)
(* socket has closed the status is not "connected" again before a socket   *)
(* has opened again.                                                       *)
(***************************************************************************)
C30_ConnectedMeansOpen ==
    [][(storeRealtimeStatus # "connected" /\ storeRealtimeStatus' = "connected")
          => socket'[Store] = "open"]_vars

====
